---- MODULE Spec2Model ----
(***************************************************************************)
(* Model of mittwald-flow-mcp: the in-memory TTL cache                     *)
(* (src/services/cache.ts) and the GitHub documentation service           *)
(* (services/github.ts: registry builder, resolver, static fetcher).      *)
(*                                                                         *)
(* JavaScript values are modelled as tagged records so that values of     *)
(* different types can live in the same store and be compared:            *)
(*   Undefined, Null, Str(text), Pair(category, slug), registries.        *)
(***************************************************************************)
EXTENDS Integers, Sequences, FiniteSets, TLC

VARIABLES
    store,      \* cache.ts:10   Map<string, CacheEntry>: key -> [value, expiresAt]
    now,        \* Date.now(), in milliseconds
    lastSet,    \* history: per key, the arguments and time of its latest cacheSet
    lastGet,    \* history: the latest direct cacheGet and what it returned
    calls,      \* the asynchronous calls of the github service that are in flight
    upstream,   \* what the GitHub repository holds: tree, metadata, documents
    sgInput,    \* suggestComponent: its input argument
    sgRegistry, \* suggestComponent: the components of its registry argument
    sgResult,   \* suggestComponent: the value it returned
    browser,    \* scraper.ts:7  the shared browser handle (0 is null)
    procs,      \* the browser processes launched so far and their state
    scrapes,    \* the scrapeDevelop / closeBrowser calls that are in flight
    site,       \* what the documentation site renders for the develop page
    contexts,   \* the browsing contexts of the browsers, by context id
    fmt,        \* formatDevelopData: its argument and the text it returned
    ls,         \* list_components: its arguments and the lines it returned
    dv          \* get_component_develop: what its steps did and its reply

histVars == <<lastSet, lastGet>>
sgVars == <<sgInput, sgRegistry, sgResult>>
scraperVars == <<browser, procs, scrapes, site, contexts>>
toolVars == <<fmt, ls, dv>>
vars == <<store, now, lastSet, lastGet, calls, upstream, sgInput, sgRegistry,
          sgResult, browser, procs, scrapes, site, contexts, fmt, ls, dv>>

----------------------------------------------------------------------------
(* Bounds of the model *)

MaxLongTicks == 1     \* how many times the clock jumps by LongTick
MaxShortTicks == 1    \* how many single milliseconds are added between jumps
NumCalls == 2         \* how many calls of the github service may be in flight
MaxElapses == 1       \* how many times the service clock jumps past the TTLs
MaxRegistryLen == 6   \* how many components a registry given to suggestComponent has
MaxBrowsers == 2      \* how many browser processes are launched in a run
NumScrapes == 1       \* how many scrapeDevelop calls may be in flight in SpecScrape
MaxContexts == 2      \* how many browsing contexts exist at a time

----------------------------------------------------------------------------
(* JavaScript values *)

Undefined == [kind |-> "undefined"]
Null == [kind |-> "null"]
\* A string value; its text is a sequence of lines, <<>> being "".
Str(text) == [kind |-> "string", text |-> text]
\* A rejected promise / thrown Error with its message.
Thrown(message) == [kind |-> "error", message |-> message]

\* JavaScript truthiness of a value: undefined, null and "" are falsy; every
\* object (a registry, a pair) and every non-empty string is truthy.
Truthy(v) == /\ v # Undefined
             /\ v # Null
             /\ v # Str(<<>>)

----------------------------------------------------------------------------
(* cache.ts *)

TTL_REGISTRY == 60 * 60 * 1000
TTL_MDX == 30 * 60 * 1000
TTL_DEVELOP == 120 * 60 * 1000
TTL_EXAMPLE == 30 * 60 * 1000

EmptyStore == [k \in {} |-> Undefined]

\* store.delete(key)
StoreDelete(s, key) == [k \in (DOMAIN s) \ {key} |-> s[k]]

\* Whether cacheGet finds an entry for key and finds it expired.
CacheExpired(s, key, t) == key \in DOMAIN s /\ t > s[key].expiresAt

\* cacheGet: the value returned at time t.
cacheGetValue(s, key, t) ==
    IF key \notin DOMAIN s THEN Undefined
    ELSE IF CacheExpired(s, key, t) THEN Undefined
    ELSE s[key].value

\* Variants of cacheGet / cacheSet with a plausible defect.
cacheGetStore_Sweep(s, key, t) ==
    [k \in {j \in DOMAIN s : ~CacheExpired(s, j, t)} |-> s[k]]

\* cacheGet: the store it leaves behind (lazy eviction of the expired entry).
cacheGetStore(s, key, t) ==
    IF CacheExpired(s, key, t) THEN StoreDelete(s, key) ELSE s

cacheSet_KeepFirst(s, key, value, ttl, t) ==
    IF key \in DOMAIN s THEN s
    ELSE [k \in (DOMAIN s) \cup {key} |->
            IF k = key THEN [value |-> value, expiresAt |-> t + ttl] ELSE s[k]]

cacheSet_NoClock(s, key, value, ttl, t) ==
    [k \in (DOMAIN s) \cup {key} |->
        IF k = key THEN [value |-> value, expiresAt |-> ttl] ELSE s[k]]

\* cacheSet: the store after store.set(key, {value, expiresAt: Date.now() + ttl}).
cacheSet(s, key, value, ttl, t) ==
    [k \in (DOMAIN s) \cup {key} |->
        IF k = key THEN [value |-> value, expiresAt |-> t + ttl] ELSE s[k]]

----------------------------------------------------------------------------
(* github.ts: network responses *)

\* A line of a fetched document.  Fence is the line "---", Field(k, v) the
\* line "k:v" (v as written, untrimmed), Text(s) any other line.
Fence == [t |-> "fence"]
Field(key, value) == [t |-> "field", key |-> key, value |-> value]
Text(s) == [t |-> "text", s |-> s]

\* String.prototype.trim on the strings that occur in the documents below.
Trim(s) ==
    CASE s = " Button " -> "Button"
      [] s = " " -> ""
      [] OTHER -> s

\* An HTTP response: its status and, when the status is 200, its body.
Response(status, body) == [status |-> status, body |-> body]
ResponseOk(resp) == resp.status >= 200 /\ resp.status <= 299

\* fetchRaw: null on 404, throws on any other non-ok status, else the text.
fetchRaw(resp) ==
    IF resp.status = 404 THEN Null
    ELSE IF ~ResponseOk(resp) THEN Thrown("GitHub raw fetch error")
    ELSE Str(resp.body)

\* fetchJson: throws on every non-ok status (404 included), else the JSON.
fetchJson(resp) ==
    IF ~ResponseOk(resp) THEN Thrown("GitHub API error")
    ELSE [kind |-> "json", tree |-> resp.body]

IsThrown(v) == v.kind = "error"

----------------------------------------------------------------------------
(* github.ts: registry builder *)

\* CONTENT_BASE split at "/".  A path is the sequence of its segments.
CONTENT_BASE == <<"apps", "docs", "src", "content", "04-components">>

\* indexPattern: ^CONTENT_BASE/([^/]+)/([^/]+)/index\.mdx$
MatchesIndexPattern(path) ==
    /\ Len(path) = Len(CONTENT_BASE) + 3
    /\ SubSeq(path, 1, Len(CONTENT_BASE)) = CONTENT_BASE
    /\ path[Len(CONTENT_BASE) + 1] # ""
    /\ path[Len(CONTENT_BASE) + 2] # ""
    /\ path[Len(CONTENT_BASE) + 3] = "index.mdx"

\* for (const entry of tree.tree) { m = match; if (m) entries.push(...) }
RECURSIVE MatchedEntries(_)
MatchedEntries(tree) ==
    IF tree = <<>> THEN <<>>
    ELSE LET path == Head(tree)
             rest == MatchedEntries(Tail(tree))
         IN IF MatchesIndexPattern(path)
            THEN <<[category |-> path[Len(CONTENT_BASE) + 1],
                    slug |-> path[Len(CONTENT_BASE) + 2]]>> \o rest
            ELSE rest

\* mdx.match(/^---\n([\s\S]*?)\n---/): the text starts with the line "---"
\* and a later line, at least one line further down, starts with "---".
\* The index of that closing fence, 0 when there is no match.
ClosingFence(doc) ==
    IF Len(doc) >= 3 /\ doc[1] = Fence
          /\ \E j \in 3..Len(doc) : doc[j] = Fence
    THEN CHOOSE j \in 3..Len(doc) :
            doc[j] = Fence /\ \A i \in 3..(j - 1) : doc[i] # Fence
    ELSE 0

\* The first line of the yaml block that carries the given key, 0 if none.
FirstField(yaml, key) ==
    IF \E i \in 1..Len(yaml) : yaml[i].t = "field" /\ yaml[i].key = key
    THEN CHOOSE i \in 1..Len(yaml) :
            /\ yaml[i].t = "field" /\ yaml[i].key = key
            /\ \A h \in 1..(i - 1) : ~(yaml[h].t = "field" /\ yaml[h].key = key)
    ELSE 0

\* parseFrontmatter, on documents whose component/description values are
\* written on the line of their key (one non-empty line each).
parseFrontmatter(doc) ==
    IF ClosingFence(doc) = 0 THEN [component |-> "", description |-> ""]
    ELSE LET yaml == SubSeq(doc, 2, ClosingFence(doc) - 1)
             ci == FirstField(yaml, "component")
             di == FirstField(yaml, "description")
         IN [component |-> IF ci = 0 THEN "" ELSE Trim(yaml[ci].value),
             description |-> IF di = 0 THEN "" ELSE Trim(yaml[di].value)]

\* The ComponentInfo built from one entry and the raw value fetched for it.
ComponentOf_DropMissing(entry, raw) ==
    IF ~Truthy(raw)
    THEN [slug |-> entry.slug, name |-> "", description |-> "",
          category |-> entry.category]
    ELSE LET fm == parseFrontmatter(raw.text)
         IN [slug |-> entry.slug,
             name |-> IF fm.component # "" THEN fm.component ELSE entry.slug,
             description |-> fm.description,
             category |-> entry.category]

ComponentOf(entry, raw) ==
    IF ~Truthy(raw)
    THEN [slug |-> entry.slug, name |-> entry.slug, description |-> "",
          category |-> entry.category]
    ELSE LET fm == parseFrontmatter(raw.text)
         IN [slug |-> entry.slug,
             name |-> IF fm.component # "" THEN fm.component ELSE entry.slug,
             description |-> fm.description,
             category |-> entry.category]

\* bySlug: for (const c of components) bySlug.set(c.slug, c) -- the last
\* component of a slug wins.
BySlug(components) ==
    [s \in {components[i].slug : i \in 1..Len(components)} |->
        components[CHOOSE i \in 1..Len(components) :
                      /\ components[i].slug = s
                      /\ \A j \in (i + 1)..Len(components) :
                            components[j].slug # s]]

Registry(components) ==
    [kind |-> "registry", components |-> components,
     bySlug |-> BySlug(components)]

\* The registry getRegistry assembles from the matched entries and the raw
\* values its fetches returned (none of them thrown).
BuildRegistry(entries, raws) ==
    Registry([i \in 1..Len(entries) |-> ComponentOf(entries[i], raws[i])])

----------------------------------------------------------------------------
(* github.ts: resolver and static fetcher, pure parts *)

Pair(category, slug) == [kind |-> "pair", category |-> category, slug |-> slug]

\* if (category): the optional argument is present and not the empty string.
CategoryGiven_Never(hasCategory, category) == FALSE

CategoryGiven(hasCategory, category) == hasCategory /\ category # ""

\* registry.bySlug.get(component) and what resolveCategory returns for it.
LookupSlug_ByName(registry, component) ==
    IF \E i \in 1..Len(registry.components) :
          registry.components[i].name = component
    THEN LET info == registry.components[
                        CHOOSE i \in 1..Len(registry.components) :
                            registry.components[i].name = component]
         IN Pair(info.category, info.slug)
    ELSE Null

LookupSlug(registry, component) ==
    IF component \in DOMAIN registry.bySlug
    THEN Pair(registry.bySlug[component].category,
              registry.bySlug[component].slug)
    ELSE Null

\* Cache keys.
RegistryKey == "registry"
MdxKey(category, component, tab) ==
    "mdx:" \o category \o "/" \o component \o "/" \o tab
ExampleKey(category, component, name) ==
    "example:" \o category \o "/" \o component \o "/" \o name

\* if (content) cacheSet(...)
ShouldCache_Always(content) == TRUE

ShouldCache(content) == Truthy(content)

----------------------------------------------------------------------------
(* github.ts: suggestComponent.  Here a string is the sequence of its      *)
(* characters, so that toLowerCase and includes work on its content.       *)

SuggestLimit == 5

\* String.prototype.toLowerCase on the characters that occur below.
LowerChar(ch) ==
    CASE ch = "A" -> "a"
      [] ch = "B" -> "b"
      [] OTHER -> ch
ToLowerCase(str) == [i \in 1..Len(str) |-> LowerChar(str[i])]

\* str.includes(sub): sub occurs in str as a contiguous substring.
Includes(str, sub) ==
    \E k \in 0..(Len(str) - Len(sub)) :
        \A i \in 1..Len(sub) : str[k + i] = sub[i]

\* The predicate of the filter: slug.includes(lower) ||
\* name.toLowerCase().includes(lower).
SuggestMatch_NameOnly(c, lower) ==
    Includes(ToLowerCase(c.name), lower)

SuggestMatch(c, lower) ==
    \/ Includes(c.slug, lower)
    \/ Includes(ToLowerCase(c.name), lower)

\* slice(0, n)
Slice(seq, n) == SubSeq(seq, 1, IF Len(seq) < n THEN Len(seq) ELSE n)

\* suggestComponent(input, registry), on registry.components.
suggestComponent(input, components) ==
    LET lower == ToLowerCase(input)
        matching == SelectSeq(components, LAMBDA c : SuggestMatch(c, lower))
        first == Slice(matching, SuggestLimit)
    IN [i \in 1..Len(first) |-> first[i].slug]

----------------------------------------------------------------------------
(* github.ts: the asynchronous operations.  Every await of a network fetch *)
(* is a suspension point: the call stops there (pc) and other calls and    *)
(* the clock may run before the response arrives.                          *)

Calls == 1..NumCalls

\* Arguments the callers pass to resolveCategory: the component and the
\* optional category (hasCategory: whether the argument is given at all).
ResolveArgs ==
    { [component |-> "button", hasCategory |-> FALSE, category |-> ""],
      [component |-> "nope", hasCategory |-> FALSE, category |-> ""],
      [component |-> "button", hasCategory |-> TRUE, category |-> ""],
      [component |-> "nope", hasCategory |-> TRUE, category |-> "actions"] }
MdxTabs == {"overview", "develop"}
ExampleNames == {"default"}

\* What the upstream repository holds.  The content is fixed during a run
\* (chosen by Init); a request may also fail with a transient error status.
TreeA == << CONTENT_BASE \o <<"actions", "button", "index.mdx">>,
            CONTENT_BASE \o <<"actions", "button", "overview.mdx">>,
            CONTENT_BASE \o <<"forms", "text-field", "index.mdx">>,
            CONTENT_BASE \o <<"actions", "button", "examples", "index.mdx">> >>
TreeB == << CONTENT_BASE \o <<"actions", "button", "index.mdx">>,
            CONTENT_BASE \o <<"index.mdx">>,
            CONTENT_BASE \o <<"forms", "button", "index.mdx">> >>
DocFull == << Fence, Field("component", " Button "),
              Field("description", "Triggers an action"), Fence,
              Text("# Button") >>
DocNoComponent == << Fence, Field("description", "No name given"), Fence >>
DocPlain == << Text("# Heading") >>
DocEmpty == << >>

\* meta[i] is what the index.mdx of the i-th matched entry of tree answers.
Upstreams ==
    << [tree |-> TreeA, meta |-> <<Response(200, DocFull), Response(404, <<>>)>>],
       [tree |-> TreeA, meta |-> <<Response(200, DocEmpty), Response(200, DocNoComponent)>>],
       [tree |-> TreeB, meta |-> <<Response(200, DocPlain), Response(200, DocFull)>> ] >>

\* What a document URL (identified by its cache key) answers.
RawDocuments == {Response(200, DocPlain), Response(200, DocEmpty), Response(404, <<>>)}

\* Transient failures of a request.
FailureResponses == {Response(500, <<>>)}

\* An upstream that is never asked (the specification does not use it).
\* repo is the index in Upstreams of what the repository holds, raw maps the
\* cache key of a document to what its URL answers.
NoUpstream == [repo |-> 0, raw |-> EmptyStore]

\* The tree listing and the metadata documents the repository holds.
UpstreamTree == Upstreams[upstream.repo].tree
UpstreamMeta == Upstreams[upstream.repo].meta

IdleCall ==
    [op |-> "none", pc |-> "idle",
     component |-> "", hasCategory |-> FALSE, category |-> "", part |-> "",
     key |-> "", entries |-> <<>>, result |-> Undefined,
     \* history of the call, read by the properties only
     reg |-> Undefined,      \* the registry the call obtained
     resps |-> <<>>,         \* the statuses of its metadata responses
     status |-> 0,           \* the status of its raw document response
     net |-> 0,              \* network fetches issued
     reads |-> 0,            \* cacheGet calls made
     writes |-> 0,           \* cacheSet calls made
     evicted |-> FALSE]      \* its cacheGet deleted an expired entry

\* The call once the registry is available: getRegistry returns it,
\* resolveCategory looks the component up in it.
WithRegistry(call, registry) ==
    [call EXCEPT !.pc = "done", !.reg = registry,
                 !.result = IF call.op = "getRegistry" THEN registry
                            ELSE LookupSlug(registry, call.component)]

\* getRegistry up to its first await: cacheGet("registry"), return on a hit,
\* else issue the tree listing request.
EnterGetRegistry(c, call) ==
    LET cached == cacheGetValue(store, RegistryKey, now)
        read == [call EXCEPT !.reads = @ + 1,
                             !.evicted = CacheExpired(store, RegistryKey, now)]
    IN /\ store' = cacheGetStore(store, RegistryKey, now)
       /\ calls' = [calls EXCEPT ![c] =
                       IF Truthy(cached) THEN WithRegistry(read, cached)
                       ELSE [read EXCEPT !.pc = "tree", !.net = @ + 1]]

\* A caller invokes getRegistry().
GetRegistry(c) ==
    /\ calls[c].pc = "idle"
    /\ EnterGetRegistry(c, [IdleCall EXCEPT !.op = "getRegistry"])
    /\ UNCHANGED <<now, upstream, histVars, sgVars, scraperVars, toolVars>>

\* A caller invokes resolveCategory(component, category?).
ResolveCategory(c) ==
    /\ calls[c].pc = "idle"
    /\ \E args \in ResolveArgs :
          LET call == [IdleCall EXCEPT !.op = "resolveCategory",
                                       !.component = args.component,
                                       !.hasCategory = args.hasCategory,
                                       !.category = args.category]
          IN IF CategoryGiven(args.hasCategory, args.category)
             THEN /\ calls' = [calls EXCEPT ![c] =
                        [call EXCEPT !.pc = "done",
                                     !.result = Pair(args.category, args.component)]]
                  /\ store' = store
             ELSE EnterGetRegistry(c, call)
    /\ UNCHANGED <<now, upstream, histVars, sgVars, scraperVars, toolVars>>

\* The tree listing answers: fetchJson throws, or the entries are matched and
\* one fetchRaw per entry is issued (Promise.all over entries.map).
TreeResponse(c) ==
    /\ calls[c].pc = "tree"
    /\ \E resp \in {Response(200, UpstreamTree), Response(404, <<>>)} :
          LET json == fetchJson(resp)
          IN calls' = [calls EXCEPT ![c] =
                IF IsThrown(json)
                THEN [@ EXCEPT !.pc = "failed", !.result = json,
                               !.status = resp.status]
                ELSE [@ EXCEPT !.pc = "meta", !.status = resp.status,
                               !.entries = MatchedEntries(json.tree),
                               !.net = @ + Len(MatchedEntries(json.tree))]]
    /\ UNCHANGED <<store, now, upstream, histVars, sgVars, scraperVars, toolVars>>

\* Whether Promise.all rejects: one of the fetchRaw promises has thrown.
AnyThrown(raws) == \E i \in 1..Len(raws) : IsThrown(raws[i])

\* The store after the build settled: untouched when Promise.all rejected,
\* else holding the registry under "registry" with the registry TTL.
StoreAfterBuild_Partial(s, entries, raws, t) ==
    LET kept == SelectSeq([i \in 1..Len(raws) |-> [e |-> entries[i], r |-> raws[i]]],
                          LAMBDA x : ~IsThrown(x.r))
    IN cacheSet(s, RegistryKey,
                Registry([i \in 1..Len(kept) |-> ComponentOf(kept[i].e, kept[i].r)]),
                TTL_REGISTRY, t)

StoreAfterBuild(s, entries, raws, t) ==
    IF AnyThrown(raws) THEN s
    ELSE cacheSet(s, RegistryKey, BuildRegistry(entries, raws), TTL_REGISTRY, t)

\* Promise.all settles: it rejects as soon as one fetchRaw throws, else all
\* components are built, the registry is assembled, cached and returned.
\* The single fetches touch no shared state, so they are taken in one step.
MetaResponse(c) ==
    /\ calls[c].pc = "meta"
    /\ \E resps \in [1..Len(calls[c].entries) ->
                       {UpstreamMeta[i] : i \in 1..Len(UpstreamMeta)}
                           \cup FailureResponses] :
          /\ \A i \in 1..Len(resps) :
                resps[i] \in {UpstreamMeta[i]} \cup FailureResponses
          \* Promise.all rejects with the first rejection and ignores what
          \* the other fetches do afterwards: one failure per build is drawn.
          /\ \A i, j \in 1..Len(resps) :
                (resps[i] \in FailureResponses /\ resps[j] \in FailureResponses)
                    => i = j
          /\ LET raws == [i \in 1..Len(resps) |-> fetchRaw(resps[i])]
                 call == [calls[c] EXCEPT
                             !.resps = [i \in 1..Len(resps) |-> resps[i].status]]
             IN /\ store' = StoreAfterBuild(store, calls[c].entries, raws, now)
                /\ calls' = [calls EXCEPT ![c] =
                      IF AnyThrown(raws)
                      THEN [call EXCEPT !.pc = "failed",
                                        !.result = Thrown("GitHub raw fetch error")]
                      ELSE WithRegistry([call EXCEPT !.writes = @ + 1],
                                        BuildRegistry(calls[c].entries, raws))]
    /\ UNCHANGED <<now, upstream, histVars, sgVars, scraperVars, toolVars>>

\* fetchMdx / fetchExample up to the await: cacheGet(cacheKey), return on a
\* truthy hit, else issue the raw fetch.
EnterFetch(c, call) ==
    LET cached == cacheGetValue(store, call.key, now)
        read == [call EXCEPT !.reads = @ + 1,
                             !.evicted = CacheExpired(store, call.key, now)]
    IN /\ store' = cacheGetStore(store, call.key, now)
       /\ calls' = [calls EXCEPT ![c] =
                       IF Truthy(cached)
                       THEN [read EXCEPT !.pc = "done", !.result = cached]
                       ELSE [read EXCEPT !.pc = "raw", !.net = @ + 1]]

\* A caller invokes fetchMdx(category, component, tab).
FetchMdx(c) ==
    /\ calls[c].pc = "idle"
    /\ \E tab \in MdxTabs :
          EnterFetch(c, [IdleCall EXCEPT !.op = "fetchMdx",
                                         !.category = "actions",
                                         !.component = "button",
                                         !.part = tab,
                                         !.key = MdxKey("actions", "button", tab)])
    /\ UNCHANGED <<now, upstream, histVars, sgVars, scraperVars, toolVars>>

\* A caller invokes fetchExample(category, component, name).
FetchExample(c) ==
    /\ calls[c].pc = "idle"
    /\ \E name \in ExampleNames :
          EnterFetch(c, [IdleCall EXCEPT !.op = "fetchExample",
                                         !.category = "actions",
                                         !.component = "button",
                                         !.part = name,
                                         !.key = ExampleKey("actions", "button", name)])
    /\ UNCHANGED <<now, upstream, histVars, sgVars, scraperVars, toolVars>>

\* The TTL class of the operation that writes the entry.
FetchTtl(op) == IF op = "fetchMdx" THEN TTL_MDX ELSE TTL_EXAMPLE

\* The raw fetch answers: fetchRaw throws, or its content (null on 404) is
\* cached when truthy and returned.
RawResponse(c) ==
    /\ calls[c].pc = "raw"
    /\ \E resp \in {upstream.raw[calls[c].key]} \cup FailureResponses :
          LET content == fetchRaw(resp)
              call == [calls[c] EXCEPT !.status = resp.status]
          IN IF IsThrown(content)
             THEN /\ calls' = [calls EXCEPT ![c] =
                        [call EXCEPT !.pc = "failed", !.result = content]]
                  /\ store' = store
             ELSE IF ShouldCache(content)
             THEN /\ store' = cacheSet(store, call.key, content,
                                       FetchTtl(call.op), now)
                  /\ calls' = [calls EXCEPT ![c] =
                        [call EXCEPT !.pc = "done", !.result = content,
                                     !.writes = @ + 1]]
             ELSE /\ store' = store
                  /\ calls' = [calls EXCEPT ![c] =
                        [call EXCEPT !.pc = "done", !.result = content]]
    /\ UNCHANGED <<now, upstream, histVars, sgVars, scraperVars, toolVars>>

\* The caller has taken the result (or the error); the slot is free again.
Return(c) ==
    /\ calls[c].pc \in {"done", "failed"}
    /\ calls' = [calls EXCEPT ![c] = IdleCall]
    /\ UNCHANGED <<store, now, upstream, histVars, sgVars, scraperVars, toolVars>>

\* Time passes while the service runs: the clock jumps past the registry
\* and document TTLs (the exact expiry instants are covered by SpecCache).
ElapseStep == TTL_REGISTRY + 1

Elapse ==
    /\ (now \div ElapseStep) < MaxElapses
    /\ now' = now + ElapseStep
    /\ UNCHANGED <<store, calls, upstream, histVars, sgVars, scraperVars, toolVars>>

----------------------------------------------------------------------------
(* scraper.ts: the develop page and what is extracted from it              *)

\* PropertyInfo as extractTable builds it (required is always false).
PropertyInfo(name, type, default, description) ==
    [name |-> name, type |-> type, default |-> default, required |-> FALSE,
     description |-> description]

PropVariant == PropertyInfo("variant", "string", "solid", "look")
PropOnPress == PropertyInfo("onPress", "fn", "", "press handler")

\* An accordion of the page: its heading text, whether it is expanded when
\* the page has loaded, whether it has a header button, whether a click on
\* the button makes its table appear before the wait gives up, and the rows
\* of its table.
Accordion(heading, expanded, button, opens, rows) ==
    [heading |-> heading, expanded |-> expanded, button |-> button,
     opens |-> opens, rows |-> rows]

\* accordion.waitForSelector(... table, {timeout: 5_000}) was issued and
\* timed out; the rejection is swallowed by .catch(() => {}).
WaitTimedOut(a) == ~a.expanded /\ a.button /\ ~a.opens

\* The rows accordion.evaluate finds: those of the table when it is there.
AccordionProps(a) ==
    IF a.expanded \/ (a.button /\ a.opens) THEN a.rows ELSE <<>>

\* The section pushed, were the heading text kept when it is empty.
Section_KeepEmptyHeading(heading, props) ==
    [heading |-> heading, properties |-> props]

\* sections.push({ heading: heading || "Other", properties: props })
Section(heading, props) ==
    [heading |-> IF heading = "" THEN "Other" ELSE heading, properties |-> props]

\* The loop over the accordions, were it to end at the first accordion whose
\* wait timed out.
RECURSIVE AccordionSections_StopAtTimeout(_)
AccordionSections_StopAtTimeout(accs) ==
    IF accs = <<>> \/ WaitTimedOut(Head(accs)) THEN <<>>
    ELSE LET props == AccordionProps(Head(accs))
         IN (IF Len(props) > 0 THEN <<Section(Head(accs).heading, props)>>
             ELSE <<>>) \o AccordionSections_StopAtTimeout(Tail(accs))

\* The loop over the accordions, in page order: a section is appended for
\* every accordion with at least one row.
RECURSIVE AccordionSections(_)
AccordionSections(accs) ==
    IF accs = <<>> THEN <<>>
    ELSE LET props == AccordionProps(Head(accs))
         IN (IF Len(props) > 0 THEN <<Section(Head(accs).heading, props)>>
             ELSE <<>>) \o AccordionSections(Tail(accs))

\* The DevelopData of a page: the main table under "Properties" when it has
\* rows, then the accordion sections.
DevelopData(page) ==
    [kind |-> "develop",
     sections |-> (IF Len(page.main) > 0
                   THEN <<Section("Properties", page.main)>> ELSE <<>>)
                  \o AccordionSections(page.accordions)]

DevelopKey(category, component) == "develop:" \o category \o "/" \o component

\* The develop pages the site may serve.
PageFull ==
    [container |-> TRUE, main |-> <<PropVariant>>,
     accordions |-> << Accordion("Events", FALSE, TRUE, FALSE, <<PropOnPress>>),
                       Accordion("", FALSE, TRUE, TRUE, <<PropOnPress>>) >>]
\* A page with an accordion that is expanded from the start and one that
\* has no header button.
PageOpen ==
    [container |-> TRUE, main |-> <<>>,
     accordions |-> << Accordion("Accessibility", TRUE, TRUE, TRUE, <<PropVariant>>),
                       Accordion("Slots", FALSE, FALSE, FALSE, <<PropOnPress>>) >>]
\* A page whose main table has no rows.
PageBare == [container |-> TRUE, main |-> <<>>, accordions |-> <<>>]
\* A page whose main content shows no table container at all.
PageNoTable == [container |-> FALSE, main |-> <<>>, accordions |-> <<>>]
Pages == {PageFull, PageOpen, PageBare, PageNoTable}

\* page.waitForSelector("[class*='mainContent'] .flow--table--table-container")
\* resolves: the main content shows a table container within the timeout.
TableShown(page) == page.container

\* The operations of scrapeDevelop that may throw.
ScrapeOps == {"launch", "newContext", "route", "newPage",
              "goto", "wait", "extract", "accordion"}

\* The site during a run: the page it serves and the operations that may
\* fail for a reason of their own (an operation on a browser that has gone
\* fails in any case).
Site(page, faults) == [page |-> page, faults |-> faults]
\* The site when no specification asks it.
NoSite == Site(PageBare, {})

----------------------------------------------------------------------------
(* scraper.ts: scrapeDevelop and closeBrowser calls.  A call is suspended  *)
(* at an await; awaits in a row that touch nothing outside the call        *)
(* (route and newPage; the body of the try block) are taken in one step.   *)

IdleScrape ==
    [op |-> "none", pc |-> "idle", key |-> "",
     b |-> 0,                \* const b: the browser the call works on
     ctx |-> "none",         \* const context: none, open or closed
     cx |-> 0,               \* const context: the id of the context
     result |-> Undefined,
     target |-> 0,           \* closeBrowser: the browser it closes
     \* history of the call, read by the properties only
     failedAt |-> "",        \* the operation that threw
     reads |-> 0,            \* cacheGet calls made
     writes |-> 0,           \* cacheSet calls made
     evicted |-> FALSE,      \* its cacheGet deleted an expired entry
     launched |-> FALSE,     \* it launched a browser
     saw |-> ""]             \* what getBrowser found: empty, dead or alive

\* browser.isConnected()
IsConnected(id) == procs[id] = "running"

\* The browsing contexts: none at first.  A context belongs to a browser,
\* is open or closed and has a number of pages.
NoContexts == [id \in {} |-> 0]

Context(b) == [b |-> b, open |-> TRUE, pages |-> 0]

\* The id of the context b.newContext() creates for the call in slot c: an
\* id not in use.  It is the number of the slot when that is free, else the
\* least free one, so that states differing only in the naming of the
\* contexts coincide.
FreshContext(ctxs, c) ==
    IF c \notin DOMAIN ctxs THEN c
    ELSE CHOOSE id \in 1..(Cardinality(DOMAIN ctxs) + 1) :
            /\ id \notin DOMAIN ctxs
            /\ \A other \in 1..(id - 1) : other \in DOMAIN ctxs

\* context.close(), were it to close every context of the same browser.
CloseContextOf_WholeBrowser(ctxs, id) ==
    IF id \in DOMAIN ctxs
    THEN [k \in DOMAIN ctxs |->
             IF ctxs[k].b = ctxs[id].b THEN [ctxs[k] EXCEPT !.open = FALSE]
             ELSE ctxs[k]]
    ELSE ctxs

\* context.close(): the context of the call is closed, no other is touched.
CloseContextOf(ctxs, id) ==
    IF id \in DOMAIN ctxs THEN [ctxs EXCEPT ![id].open = FALSE] ELSE ctxs

\* browser.close() closes every context of the browser.
CloseContextsOfBrowser(ctxs, b) ==
    [k \in DOMAIN ctxs |->
        IF ctxs[k].b = b THEN [ctxs[k] EXCEPT !.open = FALSE] ELSE ctxs[k]]

\* A closed context that no call in flight holds is garbage: only the open
\* contexts and those held by the calls in flight are kept.
HeldContexts(calls_) == {calls_[c].cx : c \in DOMAIN calls_} \ {0}
Collect(ctxs, held) ==
    [k \in {id \in DOMAIN ctxs : ctxs[id].open \/ id \in held} |-> ctxs[k]]

\* The message of the error an operation of the call throws, as the
\* sequence of its words.
ScrapeMessage(op) ==
    CASE op = "launch" ->
            <<"browserType.launch", ":", "Executable", "doesn't", "exist">>
      [] op = "goto" -> <<"page.goto", ":", "Timeout", "30000ms", "exceeded.">>
      [] op = "wait" ->
            <<"page.waitForSelector", ":", "Timeout", "15000ms", "exceeded.">>
      [] OTHER -> <<"Target", "page,", "context", "or", "browser", "has", "been",
                    "closed">>

ScrapeError(op) == Thrown(ScrapeMessage(op))

\* Whether an operation of the call may throw: the site makes it fail, the
\* browser of the call has gone, or the table the wait is for never shows.
MayThrow(call, op) ==
    \/ op \in site.faults
    \/ ~IsConnected(call.b)
    \/ op = "wait" /\ ~TableShown(site.page)

\* The store after the try block, were the sections pushed so far cached
\* when a later extraction throws.
StoreAfterTry_Partial(s, key, page, failedOp, t) ==
    IF failedOp \in {"", "accordion"}
    THEN cacheSet(s, key, DevelopData(page), TTL_DEVELOP, t)
    ELSE s

\* The store after the try block: cacheSet is its last statement but one,
\* reached only when nothing before it has thrown (failedOp is "").
StoreAfterTry(s, key, page, failedOp, t) ==
    IF failedOp = "" THEN cacheSet(s, key, DevelopData(page), TTL_DEVELOP, t)
    ELSE s

\* The handle after closeBrowser, were it cleared only when it still refers
\* to the browser that was closed.
HandleAfterClose_IfSame(handle, target) == IF handle = target THEN 0 ELSE handle

\* browser = null
HandleAfterClose(handle, target) == 0

\* The test of getBrowser, were a handle reused whenever there is one.
NeedsLaunch_OnlyIfEmpty(handle) == handle = 0

\* if (!browser || !browser.isConnected())
NeedsLaunch(handle) == handle = 0 \/ ~IsConnected(handle)

\* What the test of getBrowser finds the handle to be.
HandleState(handle) ==
    IF handle = 0 THEN "empty"
    ELSE IF IsConnected(handle) THEN "alive" ELSE "dead"

\* scrapeDevelop(category, component) up to its first await: cacheGet, return
\* on a hit, else getBrowser() either starts a launch or takes the handle.
ScrapeDevelop(c) ==
    /\ scrapes[c].pc = "idle"
    /\ LET key == DevelopKey("actions", "button")
           cached == cacheGetValue(store, key, now)
           read == [IdleScrape EXCEPT !.op = "scrapeDevelop", !.key = key,
                                      !.reads = 1,
                                      !.evicted = CacheExpired(store, key, now)]
       IN /\ store' = cacheGetStore(store, key, now)
          /\ scrapes' = [scrapes EXCEPT ![c] =
                IF Truthy(cached)
                THEN [read EXCEPT !.pc = "done", !.result = cached]
                ELSE IF NeedsLaunch(browser)
                THEN [read EXCEPT !.pc = "launch",
                                  !.saw = HandleState(browser)]
                ELSE [read EXCEPT !.pc = "context", !.b = browser,
                                  !.saw = HandleState(browser)]]
    /\ UNCHANGED <<now, browser, procs, site, contexts, histVars, calls,
                   upstream, sgVars, toolVars>>

\* chromium.launch settles: it throws, or the handle is set to the new
\* browser, which the call goes on with (b.newContext() is issued).
LaunchSettles(c) ==
    /\ scrapes[c].pc = "launch"
    /\ \/ /\ "launch" \in site.faults
          /\ scrapes' = [scrapes EXCEPT ![c] =
                [@ EXCEPT !.pc = "failed", !.failedAt = "launch",
                          !.result = ScrapeError("launch")]]
          /\ UNCHANGED <<browser, procs>>
       \/ /\ Len(procs) < MaxBrowsers
          /\ procs' = Append(procs, "running")
          /\ browser' = Len(procs) + 1
          /\ scrapes' = [scrapes EXCEPT ![c] =
                [@ EXCEPT !.pc = "context", !.b = Len(procs) + 1,
                          !.launched = TRUE]]
    /\ UNCHANGED <<store, now, site, contexts, histVars, calls, upstream, sgVars,
                   toolVars>>

\* b.newContext() settles: a new context of the browser, or an error.
NewContext(c) ==
    /\ scrapes[c].pc = "context"
    /\ \/ /\ IsConnected(scrapes[c].b)
          /\ Cardinality(DOMAIN contexts) < MaxContexts
          /\ LET id == FreshContext(contexts, c)
             IN /\ contexts' = [k \in DOMAIN contexts \cup {id} |->
                                  IF k = id THEN Context(scrapes[c].b)
                                  ELSE contexts[k]]
                /\ scrapes' = [scrapes EXCEPT ![c] =
                      [@ EXCEPT !.pc = "setup", !.ctx = "open", !.cx = id]]
       \/ /\ MayThrow(scrapes[c], "newContext")
          /\ scrapes' = [scrapes EXCEPT ![c] =
                [@ EXCEPT !.pc = "failed", !.failedAt = "newContext",
                          !.result = ScrapeError("newContext")]]
          /\ UNCHANGED contexts
    /\ UNCHANGED <<store, now, browser, procs, site, histVars, calls, upstream,
                   sgVars, toolVars>>

\* context.route(...) and context.newPage() settle; both stand before the
\* try block, so an error of either leaves the function at once.
SetupPage(c) ==
    /\ scrapes[c].pc = "setup"
    /\ \/ /\ IsConnected(scrapes[c].b)
          /\ scrapes' = [scrapes EXCEPT ![c] = [@ EXCEPT !.pc = "page"]]
          /\ contexts' = [contexts EXCEPT ![scrapes[c].cx].pages = @ + 1]
       \/ \E op \in {"route", "newPage"} :
             /\ MayThrow(scrapes[c], op)
             /\ scrapes' = [scrapes EXCEPT ![c] =
                   [@ EXCEPT !.pc = "failed", !.failedAt = op,
                             !.result = ScrapeError(op)]]
             /\ UNCHANGED contexts
    /\ UNCHANGED <<store, now, browser, procs, site, histVars, calls, upstream,
                   sgVars, toolVars>>

\* The try block: goto, the table wait, the main table, the accordions, then
\* cacheSet and return; an error of any of them goes to the finally block.
ScrapePage(c) ==
    /\ scrapes[c].pc = "page"
    /\ \/ /\ IsConnected(scrapes[c].b)
          /\ TableShown(site.page)
          /\ store' = StoreAfterTry(store, scrapes[c].key, site.page, "", now)
          /\ scrapes' = [scrapes EXCEPT ![c] =
                [@ EXCEPT !.pc = "finally", !.result = DevelopData(site.page),
                          !.writes = @ + 1]]
       \/ \E op \in {"goto", "wait", "extract", "accordion"} :
             /\ MayThrow(scrapes[c], op)
             /\ store' = StoreAfterTry(store, scrapes[c].key, site.page, op, now)
             /\ scrapes' = [scrapes EXCEPT ![c] =
                   [@ EXCEPT !.pc = "finally", !.failedAt = op,
                             !.result = ScrapeError(op)]]
    /\ UNCHANGED <<now, browser, procs, site, contexts, histVars, calls,
                   upstream, sgVars, toolVars>>

\* finally { await context.close() }, then the return or the rethrow.
CloseContext(c) ==
    /\ scrapes[c].pc = "finally"
    /\ scrapes' = [scrapes EXCEPT ![c] =
          [@ EXCEPT !.ctx = "closed",
                    !.pc = IF scrapes[c].failedAt = "" THEN "done" ELSE "failed"]]
    /\ contexts' = CloseContextOf(contexts, scrapes[c].cx)
    /\ UNCHANGED <<store, now, browser, procs, site, histVars, calls, upstream,
                   sgVars, toolVars>>

\* closeBrowser() up to its await: nothing to do without a handle, else
\* browser.close() is issued.
CloseBrowser(c) ==
    /\ scrapes[c].pc = "idle"
    /\ scrapes' = [scrapes EXCEPT ![c] =
          IF browser = 0
          THEN [IdleScrape EXCEPT !.op = "closeBrowser", !.pc = "done"]
          ELSE [IdleScrape EXCEPT !.op = "closeBrowser", !.pc = "closing",
                                  !.target = browser]]
    /\ UNCHANGED <<store, now, browser, procs, site, contexts, histVars, calls,
                   upstream, sgVars, toolVars>>

\* The browser that is being closed terminates and disconnects.
BrowserExits(c) ==
    /\ scrapes[c].pc = "closing"
    /\ procs' = [procs EXCEPT ![scrapes[c].target] = "closed"]
    /\ scrapes' = [scrapes EXCEPT ![c] = [@ EXCEPT !.pc = "closed"]]
    /\ contexts' = Collect(CloseContextsOfBrowser(contexts, scrapes[c].target),
                           HeldContexts(scrapes))
    /\ UNCHANGED <<store, now, browser, site, histVars, calls, upstream, sgVars,
                   toolVars>>

\* await browser.close() resumes: browser = null.
CloseBrowserResumes(c) ==
    /\ scrapes[c].pc = "closed"
    /\ browser' = HandleAfterClose(browser, scrapes[c].target)
    /\ scrapes' = [scrapes EXCEPT ![c] = [@ EXCEPT !.pc = "done"]]
    /\ UNCHANGED <<store, now, procs, site, contexts, histVars, calls, upstream,
                   sgVars, toolVars>>

\* The caller has taken the result (or the error); the slot is free again.
ReturnScrape(c) ==
    /\ scrapes[c].pc \in {"done", "failed"}
    /\ scrapes' = [scrapes EXCEPT ![c] = IdleScrape]
    /\ contexts' = Collect(contexts, HeldContexts(scrapes'))
    /\ UNCHANGED <<store, now, browser, procs, site, histVars, calls, upstream,
                   sgVars, toolVars>>

\* Time passes while the scraper runs: the clock jumps past the develop TTL.
DevelopElapseStep == TTL_DEVELOP + 1

ElapseDevelop ==
    /\ (now \div DevelopElapseStep) < MaxElapses
    /\ now' = now + DevelopElapseStep
    /\ UNCHANGED <<store, browser, procs, scrapes, site, contexts, histVars,
                   calls, upstream, sgVars, toolVars>>

\* The state of the scraper and of the tool handlers when they are not run.
ScraperIdle ==
    /\ browser = 0 /\ procs = <<>> /\ site = NoSite
    /\ contexts = NoContexts
    /\ scrapes = <<>>
NoTool == [done |-> FALSE]
ToolsIdle == fmt = NoTool /\ ls = NoTool /\ dv = NoTool

----------------------------------------------------------------------------
(* The clock.  It advances by one millisecond or by LongTick, so that the *)
(* states just before, at and just after an expiry are all reached.       *)

LongTick == TTL_REGISTRY

Tick ==
    /\ \E d \in {1, LongTick} :
          /\ d = 1 => (now % LongTick) < MaxShortTicks
          /\ d = LongTick => (now \div LongTick) < MaxLongTicks
          /\ now' = now + d
    /\ UNCHANGED <<store, histVars, calls, upstream, sgVars, scraperVars, toolVars>>

----------------------------------------------------------------------------
(* Direct use of the cache API (SpecCache) *)

CacheKeys == {"k1", "k2"}
CacheValues == {Str(<<"v1">>), Str(<<"v2">>)}
CacheTtls == {0, LongTick}

NoSet == [set |-> FALSE]

CacheSetOp ==
    \E k \in CacheKeys, v \in CacheValues, ttl \in CacheTtls :
        /\ store' = cacheSet(store, k, v, ttl, now)
        /\ lastSet' = [lastSet EXCEPT ![k] =
                          [set |-> TRUE, value |-> v, ttl |-> ttl, t0 |-> now,
                           prev |-> cacheGetValue(store, k, now)]]
        /\ UNCHANGED <<now, lastGet, calls, upstream, sgVars, scraperVars, toolVars>>

CacheGetOp ==
    \E k \in CacheKeys :
        /\ store' = cacheGetStore(store, k, now)
        /\ lastGet' = [got |-> TRUE, key |-> k, t |-> now,
                       result |-> cacheGetValue(store, k, now),
                       seq |-> 1 - lastGet.seq]
        /\ UNCHANGED <<now, lastSet, calls, upstream, sgVars, scraperVars, toolVars>>

InitCache ==
    /\ ScraperIdle /\ ToolsIdle
    /\ store = EmptyStore
    /\ now = 0
    /\ lastSet = [k \in CacheKeys |-> NoSet]
    /\ lastGet = [got |-> FALSE, seq |-> 0]
    /\ calls = [c \in Calls |-> IdleCall]
    /\ upstream = NoUpstream
    /\ sgInput = <<>> /\ sgRegistry = <<>> /\ sgResult = <<>>

NextCache == CacheSetOp \/ CacheGetOp \/ Tick

SpecCache == InitCache /\ [][NextCache]_vars

----------------------------------------------------------------------------
(* The github service.  SpecRegistry runs getRegistry calls, SpecResolve   *)
(* resolveCategory calls, SpecFetch fetchMdx and fetchExample calls; in    *)
(* each, up to NumCalls calls are in flight and interleave at their awaits. *)

FetchKeys == {MdxKey("actions", "button", tab) : tab \in MdxTabs}
                \cup {ExampleKey("actions", "button", n) : n \in ExampleNames}

InitService ==
    /\ ScraperIdle /\ ToolsIdle
    /\ store = EmptyStore
    /\ now = 0
    /\ lastSet = [k \in CacheKeys |-> NoSet]
    /\ lastGet = [got |-> FALSE, seq |-> 0]
    /\ calls = [c \in Calls |-> IdleCall]
    /\ sgInput = <<>> /\ sgRegistry = <<>> /\ sgResult = <<>>

InitRegistry ==
    /\ InitService
    /\ \E u \in 1..Len(Upstreams) : upstream = [NoUpstream EXCEPT !.repo = u]

NextRegistry ==
    \/ \E c \in Calls :
          \/ GetRegistry(c)
          \/ TreeResponse(c)
          \/ MetaResponse(c)
          \/ Return(c)
    \/ Elapse

SpecRegistry == InitRegistry /\ [][NextRegistry]_vars

\* resolveCategory runs the body of getRegistry itself, so its callers alone
\* produce every interleaving of registry builds.
NextResolve ==
    \/ \E c \in Calls :
          \/ ResolveCategory(c)
          \/ TreeResponse(c)
          \/ MetaResponse(c)
          \/ Return(c)
    \/ Elapse

SpecResolve == InitRegistry /\ [][NextResolve]_vars

InitFetch ==
    /\ InitService
    /\ \E raw \in [FetchKeys -> RawDocuments] :
          upstream = [NoUpstream EXCEPT !.raw = raw]

NextFetch ==
    \/ \E c \in Calls :
          \/ FetchMdx(c)
          \/ FetchExample(c)
          \/ RawResponse(c)
          \/ Return(c)
    \/ Elapse

SpecFetch == InitFetch /\ [][NextFetch]_vars

\* The scraper.  The state before any call, with as many call slots as
\* calls may be in flight, the site serving one page.
InitScraper(slots, pages, faults) ==
    /\ store = EmptyStore
    /\ now = 0
    /\ lastSet = [k \in CacheKeys |-> NoSet]
    /\ lastGet = [got |-> FALSE, seq |-> 0]
    /\ calls = [c \in Calls |-> IdleCall]
    /\ upstream = NoUpstream
    /\ sgInput = <<>> /\ sgRegistry = <<>> /\ sgResult = <<>>
    /\ ToolsIdle
    /\ browser = 0 /\ procs = <<>>
    /\ contexts = NoContexts
    /\ scrapes = [c \in 1..slots |-> IdleScrape]
    /\ \E page \in pages : site = Site(page, faults)

\* SpecScrape: scrapeDevelop calls, every operation of which may fail, while
\* the develop entries expire.
InitScrape == InitScraper(NumScrapes, Pages, ScrapeOps)

NextScrape ==
    \/ \E c \in 1..NumScrapes :
          \/ ScrapeDevelop(c)
          \/ LaunchSettles(c)
          \/ NewContext(c)
          \/ SetupPage(c)
          \/ ScrapePage(c)
          \/ CloseContext(c)
          \/ ReturnScrape(c)
    \/ ElapseDevelop

SpecScrape == InitScrape /\ [][NextScrape]_vars

\* SpecExtract: the same calls against a site none of whose operations fails
\* for a reason of its own, so that what a call does depends on the page only.
InitExtract == InitScraper(NumScrapes, Pages, {})

SpecExtract == InitExtract /\ [][NextScrape]_vars

\* SpecBrowser: scrapeDevelop and closeBrowser calls interleave at their
\* awaits; a launch may fail, and what runs on a browser that has been
\* closed fails.
InitBrowser == InitScraper(NumCalls, {PageFull}, {"launch"})

NextBrowser ==
    \E c \in Calls :
        \/ ScrapeDevelop(c)
        \/ LaunchSettles(c)
        \/ NewContext(c)
        \/ SetupPage(c)
        \/ ScrapePage(c)
        \/ CloseContext(c)
        \/ CloseBrowser(c)
        \/ BrowserExits(c)
        \/ CloseBrowserResumes(c)
        \/ ReturnScrape(c)

SpecBrowser == InitBrowser /\ [][NextBrowser]_vars

\* SpecContexts: scrapeDevelop calls in flight together, the creation of the
\* page and the navigation failing at times.
InitContexts == InitScraper(NumCalls, {PageFull}, {"newPage", "goto"})

NextContexts ==
    \E c \in Calls :
        \/ ScrapeDevelop(c)
        \/ LaunchSettles(c)
        \/ NewContext(c)
        \/ SetupPage(c)
        \/ ScrapePage(c)
        \/ CloseContext(c)
        \/ ReturnScrape(c)

SpecContexts == InitContexts /\ [][NextContexts]_vars

----------------------------------------------------------------------------
(* suggestComponent applied to bounded inputs (SpecSuggest) *)

SuggestPool ==
    { [slug |-> <<"a", "b">>, name |-> <<"A", "b">>],
      [slug |-> <<"A", "b">>, name |-> <<"x">>],
      [slug |-> <<"b">>, name |-> <<"b">>],
      [slug |-> <<"x">>, name |-> <<"B", "A">>] }
SuggestInputs == { <<>>, <<"a">>, <<"A">>, <<"a", "b">>, <<"B">>, <<"z">> }

RegistriesUpTo(n) == UNION {[1..k -> SuggestPool] : k \in 0..n}

InitSuggest ==
    /\ ScraperIdle /\ ToolsIdle
    /\ store = EmptyStore
    /\ now = 0
    /\ lastSet = [k \in CacheKeys |-> NoSet]
    /\ lastGet = [got |-> FALSE, seq |-> 0]
    /\ calls = [c \in Calls |-> IdleCall]
    /\ upstream = NoUpstream
    /\ sgInput \in SuggestInputs
    /\ sgRegistry \in RegistriesUpTo(MaxRegistryLen)
    /\ sgResult = [done |-> FALSE, slugs |-> <<>>]

Suggest ==
    /\ ~sgResult.done
    /\ sgResult' = [done |-> TRUE,
                    slugs |-> suggestComponent(sgInput, sgRegistry)]
    /\ UNCHANGED <<store, now, histVars, calls, upstream, sgInput, sgRegistry,
                 scraperVars, toolVars>>

NextSuggest == Suggest

SpecSuggest == InitSuggest /\ [][NextSuggest]_vars

----------------------------------------------------------------------------
(* Calls that race for one cache key (SpecRace).  A run has the calls of   *)
(* one kind: getRegistry, fetchMdx or scrapeDevelop; no request fails and  *)
(* only milliseconds pass, so that no entry expires during the race.       *)

Millisecond ==
    /\ now < MaxShortTicks
    /\ now' = now + 1
    /\ UNCHANGED <<store, calls, upstream, histVars, sgVars, scraperVars, toolVars>>

InitRace ==
    \/ InitRegistry
    \/ InitFetch
    \/ InitScraper(NumCalls, {PageFull}, {})

NextRace ==
    \/ \E c \in Calls :
          \/ upstream.repo # 0 /\ GetRegistry(c)
          \/ TreeResponse(c)
          \/ MetaResponse(c)
          \/ DOMAIN upstream.raw # {} /\ FetchMdx(c)
          \/ RawResponse(c)
          \/ Return(c)
          \/ /\ c \in DOMAIN scrapes
             /\ \/ ScrapeDevelop(c)
                \/ LaunchSettles(c)
                \/ NewContext(c)
                \/ SetupPage(c)
                \/ ScrapePage(c)
                \/ CloseContext(c)
                \/ ReturnScrape(c)
    \/ Millisecond

SpecRace == InitRace /\ [][NextRace]_vars

----------------------------------------------------------------------------
(* index.ts: the get_component_develop handler applied to what its steps   *)
(* do (SpecDevelop).  Messages are sequences of words.                     *)

\* The error responses of GitHub: status and status text.
HttpFailures ==
    { [status |-> "500", statusText |-> <<"Internal", "Server", "Error">>],
      [status |-> "403", statusText |-> <<"Forbidden">>],
      [status |-> "504", statusText |-> <<"Gateway", "Timeout">>] }

\* `GitHub API error: ${res.status} ${res.statusText}`
FetchJsonMessage(res) ==
    <<"GitHub", "API", "error", ":", res.status>> \o res.statusText
\* `GitHub raw fetch error: ${res.status} ${res.statusText}`
FetchRawMessage(res) ==
    <<"GitHub", "raw", "fetch", "error", ":", res.status>> \o res.statusText

\* What a step of the handler does: it succeeds or it throws.
Ok == [ok |-> TRUE]
Fails(kind, message) == [ok |-> FALSE, kind |-> kind, message |-> message]

\* resolveCategory / getRegistry: the tree listing or a metadata fetch fails.
RegistryOutcomes ==
    {Ok} \cup {Fails("fetch", FetchJsonMessage(res)) : res \in HttpFailures}
         \cup {Fails("fetch", FetchRawMessage(res)) : res \in HttpFailures}
\* fetchMdx(category, slug, "develop")
MdxOutcomes ==
    {Ok} \cup {Fails("fetch", FetchRawMessage(res)) : res \in HttpFailures}
\* The kind of failure of an operation of scrapeDevelop.
ScrapeFailureKind(op) ==
    IF op = "launch" THEN "launch"
    ELSE IF op \in {"goto", "wait"} THEN "timeout" ELSE "scrape"
ScrapeOutcomes ==
    {Ok} \cup {Fails(ScrapeFailureKind(op), ScrapeMessage(op)) : op \in ScrapeOps}

\* The catch block: the reply is chosen by what the message includes.
DevelopErrorReply(msg) ==
    IF Includes(msg, <<"browserType.launch">>) THEN "install-browser"
    ELSE IF Includes(msg, <<"Timeout">>) THEN "timed-out"
    ELSE "generic-error"

\* The handler: resolveCategory, the not-found reply, getRegistry, fetchMdx,
\* scrapeDevelop, the page; the first step that throws goes to the catch.
DevelopReply(found, registry, mdx, scrape) ==
    IF ~registry.ok THEN DevelopErrorReply(registry.message)
    ELSE IF ~found THEN "not-found"
    ELSE IF ~mdx.ok THEN DevelopErrorReply(mdx.message)
    ELSE IF ~scrape.ok THEN DevelopErrorReply(scrape.message)
    ELSE "page"

\* The step that threw, if any.
DevelopFailure(found, registry, mdx, scrape) ==
    IF ~registry.ok THEN registry
    ELSE IF ~found THEN Ok
    ELSE IF ~mdx.ok THEN mdx
    ELSE scrape

InitDevelop ==
    /\ store = EmptyStore
    /\ now = 0
    /\ lastSet = [k \in CacheKeys |-> NoSet]
    /\ lastGet = [got |-> FALSE, seq |-> 0]
    /\ calls = [c \in Calls |-> IdleCall]
    /\ upstream = NoUpstream
    /\ sgInput = <<>> /\ sgRegistry = <<>> /\ sgResult = <<>>
    /\ ScraperIdle
    /\ fmt = NoTool /\ ls = NoTool
    /\ \E found \in BOOLEAN, registry \in RegistryOutcomes, mdx \in MdxOutcomes,
          scrape \in ScrapeOutcomes :
          dv = [done |-> FALSE, found |-> found, registry |-> registry,
                mdx |-> mdx, scrape |-> scrape, failure |-> Ok, reply |-> ""]

GetComponentDevelop ==
    /\ ~dv.done
    /\ dv' = [dv EXCEPT
                !.done = TRUE,
                !.failure = DevelopFailure(dv.found, dv.registry, dv.mdx, dv.scrape),
                !.reply = DevelopReply(dv.found, dv.registry, dv.mdx, dv.scrape)]
    /\ UNCHANGED <<store, now, histVars, calls, upstream, sgVars, scraperVars,
                   fmt, ls>>

NextDevelop == GetComponentDevelop

SpecDevelop == InitDevelop /\ [][NextDevelop]_vars

----------------------------------------------------------------------------
(* scraper.ts: formatDevelopData applied to bounded data (SpecFormat).     *)
(* A line is a sequence of pieces: the characters "|" and "\", and runs of *)
(* other characters.                                                       *)

\* str.replace(/\|/g, "\\|")
RECURSIVE EscapePipes(_)
EscapePipes(str) ==
    IF str = <<>> THEN <<>>
    ELSE (IF Head(str) = "|" THEN <<"\\", "|">> ELSE <<Head(str)>>)
            \o EscapePipes(Tail(str))

\* "| Property | Type | Default | Description |"
TableHeader ==
    <<"|", " Property ", "|", " Type ", "|", " Default ", "|", " Description ", "|">>
\* "|----------|------|---------|-------------|"
TableDivider ==
    <<"|", "----------", "|", "------", "|", "---------", "|", "-------------", "|">>

\* The piece standing for the backquote that opens and closes a code span.
Backquote == "BACKQUOTE"

\* | `${prop.name}` | ${escapedType} | ${escapedDefault} | ${escapedDesc} |
TableRow(prop) ==
    <<"|", " ", Backquote>> \o prop.name \o <<Backquote, " ", "|", " ">>
        \o EscapePipes(prop.type) \o <<" ", "|", " ">>
        \o EscapePipes(prop.default) \o <<" ", "|", " ">>
        \o EscapePipes(prop.description) \o <<" ", "|">>

\* The lines of one section: the heading and the empty line after it, the
\* header, the divider, one row per property, an empty line.
SectionLines(section) ==
    << [kind |-> "heading", text |-> <<"## ", section.heading>>],
       [kind |-> "blank", text |-> <<>>],
       [kind |-> "header", text |-> TableHeader],
       [kind |-> "divider", text |-> TableDivider] >>
    \o [i \in 1..Len(section.properties) |->
           [kind |-> "row", text |-> TableRow(section.properties[i])]]
    \o << [kind |-> "blank", text |-> <<>>] >>

RECURSIVE AllSectionLines(_)
AllSectionLines(sections) ==
    IF sections = <<>> THEN <<>>
    ELSE SectionLines(Head(sections)) \o AllSectionLines(Tail(sections))

\* formatDevelopData(data), as the lines of the text it returns.
formatDevelopData(data) ==
    IF Len(data.sections) = 0
    THEN << [kind |-> "message",
             text |-> <<"No property data found for this component.">>] >>
    ELSE AllSectionLines(data.sections)

\* The cell texts the page may hold.
CellTexts == { <<>>, <<"a">>, <<"|">>, <<"a", "|", "b">> }

\* The data given to formatDevelopData: no section, or one section with one
\* property whose cells are any of the cell texts.
FormatInputs ==
    { [kind |-> "develop", sections |-> <<>>] }
    \cup { [kind |-> "develop",
            sections |-> << [heading |-> "Properties",
                             properties |-> <<PropertyInfo(n, t, d, x)>>] >>] :
              n \in CellTexts, t \in CellTexts, d \in CellTexts, x \in CellTexts }

InitFormat ==
    /\ store = EmptyStore
    /\ now = 0
    /\ lastSet = [k \in CacheKeys |-> NoSet]
    /\ lastGet = [got |-> FALSE, seq |-> 0]
    /\ calls = [c \in Calls |-> IdleCall]
    /\ upstream = NoUpstream
    /\ sgInput = <<>> /\ sgRegistry = <<>> /\ sgResult = <<>>
    /\ ScraperIdle
    /\ ls = NoTool /\ dv = NoTool
    /\ \E data \in FormatInputs : fmt = [done |-> FALSE, data |-> data, lines |-> <<>>]

FormatDevelopData ==
    /\ ~fmt.done
    /\ fmt' = [fmt EXCEPT !.done = TRUE, !.lines = formatDevelopData(fmt.data)]
    /\ UNCHANGED <<store, now, histVars, calls, upstream, sgVars, scraperVars,
                   ls, dv>>

NextFormat == FormatDevelopData

SpecFormat == InitFormat /\ [][NextFormat]_vars

----------------------------------------------------------------------------
(* index.ts: the list_components handler with github.ts listComponents,    *)
(* applied to bounded registries and filters (SpecList).                   *)

\* listComponents(category), given the components of the registry: the
\* filter applies when `if (category)` holds.
listComponents_All(components, hasCategory, category) == components

listComponents(components, hasCategory, category) ==
    IF CategoryGiven(hasCategory, category)
    THEN SelectSeq(components, LAMBDA c : c.category = category)
    ELSE components

\* The strings of the listing in the order localeCompare gives them.
CollationOrder ==
    <<"actions", "button", "forms", "link", "nope", "text-field">>

CollationRank(str) ==
    CHOOSE i \in 1..Len(CollationOrder) : CollationOrder[i] = str

\* a.localeCompare(b) < 0, = 0, > 0 as -1, 0, 1.
localeCompare(a, b) ==
    IF CollationRank(a) < CollationRank(b) THEN 0 - 1
    ELSE IF CollationRank(a) > CollationRank(b) THEN 1 ELSE 0

\* Array.prototype.sort with (a, b) => a.key.localeCompare(b.key): a stable
\* sort of records by their key.
SortByKey(items) ==
    LET Before(i, j) ==
            \/ localeCompare(items[i].key, items[j].key) < 0
            \/ localeCompare(items[i].key, items[j].key) = 0 /\ i < j
        Position(i) == 1 + Cardinality({j \in 1..Len(items) : Before(j, i)})
    IN [p \in 1..Len(items) |->
           items[CHOOSE i \in 1..Len(items) : Position(i) = p]]

\* grouped.get(c.category) ?? [] ; list.push(c) ; grouped.set(c.category, list)
\* A Map keeps its keys in the order of their first insertion.
GroupAdd(grouped, c) ==
    IF \E g \in 1..Len(grouped) : grouped[g].key = c.category
    THEN [g \in 1..Len(grouped) |->
             IF grouped[g].key = c.category
             THEN [grouped[g] EXCEPT !.value = Append(@, c)]
             ELSE grouped[g]]
    ELSE Append(grouped, [key |-> c.category, value |-> <<c>>])

RECURSIVE GroupByCategory(_, _)
GroupByCategory(grouped, components) ==
    IF components = <<>> THEN grouped
    ELSE GroupByCategory(GroupAdd(grouped, Head(components)), Tail(components))

\* comps.sort((a, b) => a.slug.localeCompare(b.slug))
SortBySlug(comps) ==
    LET sorted == SortByKey([i \in 1..Len(comps) |->
                                [key |-> comps[i].slug, value |-> comps[i]]])
    IN [i \in 1..Len(sorted) |-> sorted[i].value]

\* The lines pushed for one group: the heading, one item per component, "".
GroupLines(group) ==
    << [kind |-> "heading", category |-> group.key] >>
    \o [i \in 1..Len(group.value) |->
           [kind |-> "item", component |-> SortBySlug(group.value)[i]]]
    \o << [kind |-> "blank"] >>

RECURSIVE AllGroupLines(_)
AllGroupLines(groups) ==
    IF groups = <<>> THEN <<>>
    ELSE GroupLines(Head(groups)) \o AllGroupLines(Tail(groups))

\* [...new Set(registry.components.map((c) => c.category))].sort()
AvailableCategories(components) ==
    LET groups == SortByKey(GroupByCategory(<<>>, components))
    IN [i \in 1..Len(groups) |-> groups[i].key]

\* The text the handler returns, as its lines.
ListReply(components, hasCategory, category) ==
    LET listed == listComponents(components, hasCategory, category)
    IN IF Len(listed) = 0
       THEN IF CategoryGiven(hasCategory, category)
            THEN << [kind |-> "none-in-category", category |-> category,
                     categories |-> AvailableCategories(components)] >>
            ELSE << [kind |-> "none"] >>
       ELSE AllGroupLines(SortByKey(GroupByCategory(<<>>, listed)))

Info(slug, name, category) ==
    [slug |-> slug, name |-> name, description |-> "", category |-> category]

\* The components a registry may hold: two categories, one slug in both.
ListPool ==
    { Info("button", "Button", "actions"), Info("link", "link", "actions"),
      Info("text-field", "TextField", "forms"), Info("button", "Button", "forms") }

\* Every registry over the pool, in every order, no entry twice.
ListRegistries ==
    UNION { { seq \in [1..n -> ListPool] :
                \A i, j \in 1..n : seq[i] = seq[j] => i = j } :
            n \in 0..Cardinality(ListPool) }

\* The category argument: absent, or one of these strings.
ListFilters == {"", "actions", "forms", "nope"}

InitList ==
    /\ store = EmptyStore
    /\ now = 0
    /\ lastSet = [k \in CacheKeys |-> NoSet]
    /\ lastGet = [got |-> FALSE, seq |-> 0]
    /\ calls = [c \in Calls |-> IdleCall]
    /\ upstream = NoUpstream
    /\ sgInput = <<>> /\ sgRegistry = <<>> /\ sgResult = <<>>
    /\ ScraperIdle
    /\ fmt = NoTool /\ dv = NoTool
    /\ \E components \in ListRegistries, hasCategory \in BOOLEAN,
          category \in ListFilters :
            /\ ~hasCategory => category = ""
            /\ ls = [done |-> FALSE, components |-> components,
                     hasCategory |-> hasCategory, category |-> category,
                     lines |-> <<>>]

ListComponents ==
    /\ ~ls.done
    /\ ls' = [ls EXCEPT !.done = TRUE,
                        !.lines = ListReply(ls.components, ls.hasCategory,
                                            ls.category)]
    /\ UNCHANGED <<store, now, histVars, calls, upstream, sgVars, scraperVars,
                   fmt, dv>>

NextList == ListComponents

SpecList == InitList /\ [][NextList]_vars

----------------------------------------------------------------------------
(* Claims about the registry builder (SpecRegistry) and the resolver      *)
(* (SpecResolve)                                                           *)

RegistryOps == {"getRegistry", "resolveCategory"}

\* Call c consults the registry: it is a getRegistry call, or a
\* resolveCategory call whose category argument does not count as given.
ConsultsRegistry(c) ==
    \/ calls[c].op = "getRegistry"
    \/ /\ calls[c].op = "resolveCategory"
       /\ ~CategoryGiven(calls[c].hasCategory, calls[c].category)

\* The number of paths of the upstream tree that match the index pattern.
MatchedCount ==
    Cardinality({i \in 1..Len(UpstreamTree) : MatchesIndexPattern(UpstreamTree[i])})

\* A registry holds one component per matched path of the tree.
CompleteRegistry(registry) ==
    /\ registry.kind = "registry"
    /\ Len(registry.components) = MatchedCount

\* C4 as stated: a failed rebuild leaves the cache entry under "registry"
\* exactly as it was before the call -- the call neither wrote nor removed it.
C4_FailedBuildLeavesEntryAsBefore ==
    \A c \in Calls :
        (ConsultsRegistry(c) /\ calls[c].pc = "failed")
            => (calls[c].writes = 0 /\ ~calls[c].evicted)

\* C4 amended: when the tree listing fails or a metadata fetch fails with a
\* status other than 404, the call ends in an error and has written nothing:
\* the failing step leaves the store unchanged, the only change the call can
\* have made is the eviction of an expired "registry" entry by its initial
\* cacheGet, and every registry cached or returned is complete.
C4_FailedBuildWritesNothing ==
    [][ \A c \in Calls :
          /\ (calls[c].pc = "idle" /\ calls'[c].pc \in {"tree"})
                => \/ store' = store
                   \/ /\ CacheExpired(store, RegistryKey, now)
                      /\ store' = StoreDelete(store, RegistryKey)
                      /\ calls'[c].evicted
          /\ (calls[c].pc = "tree" /\ calls'[c].pc # "tree")
                => IF ResponseOk([status |-> calls'[c].status])
                   THEN calls'[c].pc = "meta" /\ store' = store
                   ELSE /\ calls'[c].pc = "failed"
                        /\ IsThrown(calls'[c].result)
                        /\ calls'[c].writes = 0
                        /\ store' = store
          /\ (calls[c].pc = "meta" /\ calls'[c].pc # "meta")
                => IF \E i \in 1..Len(calls'[c].resps) :
                         /\ ~ResponseOk([status |-> calls'[c].resps[i]])
                         /\ calls'[c].resps[i] # 404
                   THEN /\ calls'[c].pc = "failed"
                        /\ IsThrown(calls'[c].result)
                        /\ calls'[c].writes = 0
                        /\ store' = store
                   ELSE calls'[c].pc = "done"
          /\ (RegistryKey \in DOMAIN store')
                => CompleteRegistry(store'[RegistryKey].value)
          /\ (calls'[c].op = "getRegistry" /\ calls'[c].pc = "done")
                => CompleteRegistry(calls'[c].result)
      ]_vars

\* C4 witness: a rebuild failed on a metadata fetch after another metadata
\* fetch of the same build had succeeded, and its initial cacheGet had
\* evicted the expired registry entry.
C4_Witness ==
    \E c \in Calls :
        /\ ConsultsRegistry(c) /\ calls[c].pc = "failed"
        /\ calls[c].evicted
        /\ \E i, j \in 1..Len(calls[c].resps) :
              /\ calls[c].resps[i] = 500
              /\ calls[c].resps[j] = 200
        /\ RegistryKey \notin DOMAIN store

\* C5: when no metadata fetch of a rebuild fails and at least one answers
\* 404, the build succeeds and is cached with the registry TTL; the registry
\* has one component per matched path, in order, with that path's category
\* and slug; a 404 component has name = slug and an empty description; every
\* other component has the fields its own document gives.
C5_NotFoundDegradesOneComponent ==
    [][ \A c \in Calls :
          (/\ calls[c].pc = "meta" /\ calls'[c].pc # "meta"
           /\ \A i \in 1..Len(calls'[c].resps) :
                 calls'[c].resps[i] \in {200, 404}
           /\ \E i \in 1..Len(calls'[c].resps) :
                 calls'[c].resps[i] = 404)
          => /\ calls'[c].pc = "done"
             /\ RegistryKey \in DOMAIN store'
             /\ store'[RegistryKey] =
                    [value |-> calls'[c].reg, expiresAt |-> now + TTL_REGISTRY]
             /\ CompleteRegistry(calls'[c].reg)
             /\ Len(calls'[c].reg.components) = Len(calls[c].entries)
             /\ \A i \in 1..Len(calls[c].entries) :
                   LET info == calls'[c].reg.components[i]
                       status == calls'[c].resps[i]
                       fm == parseFrontmatter(UpstreamMeta[i].body)
                   IN /\ info.slug = calls[c].entries[i].slug
                      /\ info.category = calls[c].entries[i].category
                      /\ status = 404
                            => info.name = info.slug /\ info.description = ""
                      /\ status = 200
                            => /\ info.name = IF fm.component = ""
                                              THEN info.slug ELSE fm.component
                               /\ info.description = fm.description
      ]_vars

\* C5 witness: a build completed with one metadata document missing (404)
\* and another one carrying a component name; its registry is cached.
C5_Witness ==
    \E c \in Calls :
        /\ calls[c].pc = "done" /\ calls[c].writes = 1
        /\ \E i, j \in 1..Len(calls[c].resps) :
              /\ calls[c].resps[i] = 404
              /\ calls[c].resps[j] = 200
              /\ UpstreamMeta[j] = Response(200, DocFull)
              /\ calls[c].reg.components[i].name = calls[c].reg.components[i].slug
              /\ calls[c].reg.components[j].name = "Button"
        /\ RegistryKey \in DOMAIN store
        /\ store[RegistryKey].value = calls[c].reg

\* What C6 says of a resolveCategory call: it has returned (category,
\* component) verbatim, issued no request and made no cache access.
ReturnedVerbatim(c) ==
    /\ calls[c].pc = "done"
    /\ calls[c].result = Pair(calls[c].category, calls[c].component)
    /\ calls[c].reg = Undefined
    /\ calls[c].net = 0 /\ calls[c].reads = 0 /\ calls[c].writes = 0

\* C6 as stated: every resolveCategory call with a category supplied returns
\* (category, component) verbatim without consulting the registry.
C6_SuppliedCategoryVerbatim ==
    \A c \in Calls :
        (calls[c].op = "resolveCategory" /\ calls[c].hasCategory)
            => ReturnedVerbatim(c)

\* C6 amended: every resolveCategory call with a non-empty category supplied
\* returns (category, component) verbatim without consulting the registry:
\* no request is issued and the cache is neither read nor written.
C6_NonEmptyCategoryVerbatim ==
    \A c \in Calls :
        (calls[c].op = "resolveCategory" /\ calls[c].hasCategory
            /\ calls[c].category # "")
            => ReturnedVerbatim(c)

\* C6 witness: a call with category "actions" for a component that is in no
\* registry has returned while no registry is cached.
C6_Witness ==
    \E c \in Calls :
        /\ calls[c].op = "resolveCategory" /\ calls[c].hasCategory
        /\ calls[c].category = "actions" /\ calls[c].component = "nope"
        /\ calls[c].pc = "done"
        /\ RegistryKey \notin DOMAIN store

\* C7: a resolveCategory call without a category that has returned obtained
\* the registry; it returns the (category, slug) of a registry entry whose
\* slug is the component when there is one, and the miss value null when
\* there is none.  A call that could not obtain the registry (a request of
\* its build failed) ends in an error, never in a value.
C7_ResolveHitMissError ==
    \A c \in Calls :
        (calls[c].op = "resolveCategory" /\ ~calls[c].hasCategory) =>
            /\ calls[c].pc = "done" =>
                  /\ calls[c].reg # Undefined
                  /\ calls[c].reg.kind = "registry"
                  /\ LET comps == calls[c].reg.components
                         hits == {i \in 1..Len(comps) :
                                     comps[i].slug = calls[c].component}
                     IN IF hits = {}
                        THEN calls[c].result = Null
                        ELSE \E i \in hits :
                                calls[c].result =
                                    Pair(comps[i].category, comps[i].slug)
            /\ calls[c].pc = "failed" =>
                  /\ calls[c].reg = Undefined
                  /\ IsThrown(calls[c].result)
            /\ (calls[c].pc \in {"done", "failed"} /\ calls[c].net > 0
                  /\ \/ ~ResponseOk([status |-> calls[c].status])
                     \/ \E i \in 1..Len(calls[c].resps) :
                           calls[c].resps[i] = 500)
                  => calls[c].pc = "failed"

\* C7 witness: with a non-empty registry obtained, a lookup of a slug that
\* is not in it returned null, while another call's build has failed.
C7_Witness ==
    \E c, d \in Calls :
        /\ calls[c].op = "resolveCategory" /\ ~calls[c].hasCategory
        /\ calls[c].pc = "done" /\ calls[c].result = Null
        /\ Len(calls[c].reg.components) > 0
        /\ calls[d].op = "resolveCategory" /\ ~calls[d].hasCategory
        /\ calls[d].pc = "failed"

----------------------------------------------------------------------------
(* Claims about suggestComponent (SpecSuggest) *)

\* input is a case-insensitive substring of the slug or of the display name.
MatchesIgnoringCase(c, input) ==
    \/ Includes(ToLowerCase(c.slug), ToLowerCase(input))
    \/ Includes(ToLowerCase(c.name), ToLowerCase(input))

\* C8: suggestComponent returns exactly the slugs of the first 5 components,
\* in registry order, for which input is a case-insensitive substring of the
\* slug or of the display name.
C8_FirstFiveCaseInsensitiveMatches ==
    sgResult.done =>
        LET expected == Slice(SelectSeq(sgRegistry,
                                  LAMBDA c : MatchesIgnoringCase(c, sgInput)),
                              SuggestLimit)
        IN /\ Len(sgResult.slugs) = Len(expected)
           /\ \A i \in 1..Len(expected) : sgResult.slugs[i] = expected[i].slug

----------------------------------------------------------------------------
(* Claims about fetchMdx and fetchExample (SpecFetch) *)

FetchOps == {"fetchMdx", "fetchExample"}

\* C9: when the raw fetch of fetchMdx / fetchExample answers 404, the call
\* returns null and the store is left as it was; when it answers any other
\* non-success status, the call ends in an error and the store is left as it
\* was; and a call that finds no entry under its key issues a fetch.
C9_NotFoundAndErrorsCacheNothing ==
    [][ \A c \in Calls :
          /\ (calls[c].pc = "raw" /\ calls'[c].pc # "raw"
                /\ calls'[c].status = 404)
                => /\ calls'[c].pc = "done"
                   /\ calls'[c].result = Null
                   /\ calls'[c].writes = 0
                   /\ store' = store
          /\ (calls[c].pc = "raw" /\ calls'[c].pc # "raw"
                /\ calls'[c].status # 404
                /\ ~ResponseOk([status |-> calls'[c].status]))
                => /\ calls'[c].pc = "failed"
                   /\ IsThrown(calls'[c].result)
                   /\ calls'[c].writes = 0
                   /\ store' = store
          /\ (calls[c].pc = "idle" /\ calls'[c].op \in FetchOps
                /\ calls'[c].key \notin DOMAIN store')
                => calls'[c].pc = "raw" /\ calls'[c].net = 1
      ]_vars

\* C9 witness: a call got 404, returned null, and its key is not cached,
\* while the other call, started for the same key, is fetching again.
C9_Witness ==
    \E c, d \in Calls :
        /\ calls[c].op \in FetchOps /\ calls[c].pc = "done"
        /\ calls[c].status = 404 /\ calls[c].result = Null
        /\ calls[c].key \notin DOMAIN store
        /\ d # c /\ calls[d].key = calls[c].key /\ calls[d].pc = "raw"

\* C10: every successful fetch (status 200, whatever the body, the empty one
\* included) is cached under the call's key with the TTL of its class and
\* returned as the raw text, and a call that starts while that entry has not
\* expired returns its text without issuing a fetch.
C10_SuccessfulFetchIsCached ==
    [][ \A c \in Calls :
          /\ (calls[c].pc = "raw" /\ calls'[c].pc # "raw"
                /\ calls'[c].status = 200)
                => /\ calls'[c].pc = "done"
                   /\ calls'[c].result = Str(upstream.raw[calls[c].key].body)
                   /\ calls[c].key \in DOMAIN store'
                   /\ store'[calls[c].key] =
                         [value |-> calls'[c].result,
                          expiresAt |-> now + FetchTtl(calls[c].op)]
          /\ (calls[c].pc = "idle" /\ calls'[c].op \in FetchOps
                /\ calls'[c].key \in DOMAIN store
                /\ ~CacheExpired(store, calls'[c].key, now))
                => /\ calls'[c].pc = "done"
                   /\ calls'[c].result = store[calls'[c].key].value
                   /\ calls'[c].net = 0
      ]_vars

----------------------------------------------------------------------------
(* Claims about the cache, checked under SpecCache *)

\* A step of SpecCache is a cacheGet exactly when it changes lastGet (seq flips).
IsGetStep == lastGet' # lastGet

\* Expiry computed from the latest cacheSet of key k.
Deadline(k) == lastSet[k].t0 + lastSet[k].ttl

\* C1: after cacheSet(k, v, ttl) at time t0 with no later cacheSet on k, a
\* cacheGet(k) at time t returns v when t < t0 + ttl and a miss (undefined)
\* when t > t0 + ttl, whatever happened to other keys in between.
C1_GetWithinAndAfterTtl ==
    [][ (IsGetStep /\ lastSet[lastGet'.key].set) =>
            /\ now < Deadline(lastGet'.key)
                  => lastGet'.result = lastSet[lastGet'.key].value
            /\ now > Deadline(lastGet'.key)
                  => lastGet'.result = Undefined
      ]_vars

\* C1 witness: a get of k after its TTL elapsed reported a miss while another
\* key, set later than k, is still stored.
C1_Witness ==
    /\ lastGet.got /\ lastSet[lastGet.key].set
    /\ lastGet.t > Deadline(lastGet.key)
    /\ lastGet.result = Undefined
    /\ \E j \in CacheKeys \ {lastGet.key} :
          /\ j \in DOMAIN store
          /\ lastSet[j].set /\ lastSet[j].t0 > lastSet[lastGet.key].t0

\* C2: when a key is set a second time before its first entry expired, the
\* stored entry is the second one (value and expiry computed from the second
\* set) and every later hit on the key returns the second value.
C2_OverwriteSemantics ==
    [][ /\ \A k \in CacheKeys :
              (lastSet'[k] # lastSet[k] /\ k \in DOMAIN store
                    /\ ~CacheExpired(store, k, now))
                 => store'[k] = [value |-> lastSet'[k].value,
                                 expiresAt |-> now + lastSet'[k].ttl]
        /\ (IsGetStep /\ lastSet[lastGet'.key].set
                /\ lastSet[lastGet'.key].prev # Undefined
                /\ lastGet'.result # Undefined)
              => /\ lastGet'.result = lastSet[lastGet'.key].value
                 /\ store[lastGet'.key].expiresAt = Deadline(lastGet'.key)
      ]_vars

\* C2 witness: a hit after an overwrite of an unexpired entry with a
\* different value and the long TTL.
C2_Witness ==
    /\ lastGet.got /\ lastSet[lastGet.key].set
    /\ lastSet[lastGet.key].prev # Undefined
    /\ lastSet[lastGet.key].prev # lastSet[lastGet.key].value
    /\ lastGet.result = lastSet[lastGet.key].value
    /\ lastGet.t > lastSet[lastGet.key].t0
    /\ lastSet[lastGet.key].ttl = LongTick

\* C3: a key leaves the store only in a cacheGet of that key performed after
\* its expiry, which reports a miss and leaves every other entry as it was;
\* a cacheGet of an absent or unexpired key leaves the store unchanged.
C3_OnlyExpiredGetRemoves ==
    [][ /\ \A k \in DOMAIN store :
              k \notin DOMAIN store' =>
                  /\ CacheExpired(store, k, now)
                  /\ IsGetStep
                  /\ lastGet'.key = k
                  /\ lastGet'.result = Undefined
                  /\ store' = StoreDelete(store, k)
        /\ (IsGetStep /\ ~CacheExpired(store, lastGet'.key, now))
              => store' = store
        /\ (IsGetStep /\ CacheExpired(store, lastGet'.key, now))
              => /\ lastGet'.key \notin DOMAIN store'
                 /\ lastGet'.result = Undefined
      ]_vars

\* C3 witness: an expired key has just been evicted by a get that missed,
\* while the other key, itself expired, is still stored.
C3_Witness ==
    /\ lastGet.got
    /\ lastGet.result = Undefined
    /\ lastGet.key \notin DOMAIN store
    /\ lastGet.t = now
    /\ \E j \in CacheKeys \ {lastGet.key} : CacheExpired(store, j, now)

----------------------------------------------------------------------------
(* Claims about the scraper (SpecScrape, SpecBrowser) *)

ScrapeSlots == DOMAIN scrapes

\* The scrapeDevelop call in slot c has terminated.
ScrapeTerminated(c) ==
    scrapes[c].op = "scrapeDevelop" /\ scrapes[c].pc \in {"done", "failed"}

\* C11: no terminated scrapeDevelop call leaves the browsing context it
\* created open, whichever operation of the call has failed.
C11_EveryContextClosedOnExit ==
    \A c \in ScrapeSlots : ScrapeTerminated(c) => scrapes[c].ctx # "open"

\* C12: at most one browser launch is in flight at any time.
C12_AtMostOneLaunchInFlight ==
    Cardinality({c \in ScrapeSlots : scrapes[c].pc = "launch"}) <= 1

\* C13: a closeBrowser call that finds no handle returns at once and changes
\* nothing; one that finds a handle ends with the browser it found terminated
\* and the handle cleared; no closeBrowser call fails; and a scrapeDevelop
\* cache miss that finds the handle cleared launches a browser, which when
\* the launch succeeds is a new running process that becomes the handle.
C13_CloseBrowserClearsHandle ==
    [][ \A c \in ScrapeSlots :
          /\ (scrapes[c].pc = "idle" /\ scrapes'[c].op = "closeBrowser")
                => /\ browser' = browser /\ procs' = procs
                   /\ IF browser = 0
                      THEN scrapes'[c].pc = "done"
                      ELSE scrapes'[c].pc = "closing"
                           /\ scrapes'[c].target = browser
          /\ (scrapes[c].op = "closeBrowser" /\ scrapes'[c].pc # scrapes[c].pc)
                => scrapes'[c].pc \in {"closed", "done", "idle"}
          /\ (scrapes[c].pc = "closed" /\ scrapes'[c].pc = "done")
                => /\ browser' = 0
                   /\ procs'[scrapes[c].target] = "closed"
          /\ (scrapes[c].pc = "idle" /\ scrapes'[c].op = "scrapeDevelop"
                /\ scrapes'[c].pc # "done" /\ browser = 0)
                => scrapes'[c].pc = "launch"
          /\ (scrapes[c].pc = "launch" /\ scrapes'[c].pc = "context")
                => /\ scrapes'[c].b \notin DOMAIN procs
                   /\ procs'[scrapes'[c].b] = "running"
                   /\ browser' = scrapes'[c].b
      ]_vars

\* C13 witness: a closeBrowser call has closed the first browser and has
\* returned, and a scrapeDevelop call works on a second browser, which is
\* running and is the handle.
C13_Witness ==
    \E c, d \in ScrapeSlots :
        /\ scrapes[c].op = "closeBrowser" /\ scrapes[c].pc = "done"
        /\ scrapes[c].target = 1 /\ procs[1] = "closed"
        /\ scrapes[d].op = "scrapeDevelop" /\ scrapes[d].launched
        /\ scrapes[d].b = 2 /\ browser = 2 /\ procs[2] = "running"

\* The accordions of the page that give a section: their wait did not time
\* out, their table is there and it has rows.
Contributing(page) ==
    {i \in 1..Len(page.accordions) :
        LET a == page.accordions[i]
        IN /\ ~WaitTimedOut(a)
           /\ a.expanded \/ a.button
           /\ Len(a.rows) > 0}

\* data holds every section of the page: the main table first when it has
\* rows, then one section per contributing accordion, in page order.
CompleteData(page, data) ==
    LET mainN == IF Len(page.main) > 0 THEN 1 ELSE 0
        rank(i) == Cardinality({j \in Contributing(page) : j <= i})
    IN /\ data.kind = "develop"
       /\ Len(data.sections) = mainN + Cardinality(Contributing(page))
       /\ mainN = 1 => data.sections[1].properties = page.main
       /\ \A i \in Contributing(page) :
             data.sections[mainN + rank(i)].properties = page.accordions[i].rows

\* C14: when the try block of a scrapeDevelop call ends without an error,
\* accordion waits that timed out included, the result holds the sections of
\* all accordions whose wait did not time out, in page order (a timed out one
\* gives none), the result is cached under the develop key with the develop
\* TTL, and the call then returns it.
C14_AccordionTimeoutTolerated ==
    [][ \A c \in ScrapeSlots :
          /\ (scrapes[c].pc = "page" /\ scrapes'[c].pc = "finally"
                /\ scrapes'[c].failedAt = "")
                => /\ CompleteData(site.page, scrapes'[c].result)
                   /\ scrapes[c].key \in DOMAIN store'
                   /\ store'[scrapes[c].key] =
                         [value |-> scrapes'[c].result,
                          expiresAt |-> now + TTL_DEVELOP]
          /\ (scrapes[c].pc = "finally" /\ scrapes[c].failedAt = ""
                /\ scrapes'[c].pc # "finally")
                => /\ scrapes'[c].pc = "done"
                   /\ scrapes'[c].result = scrapes[c].result
      ]_vars

\* C14 witness: a call has returned the data of a page on which the wait of
\* an accordion timed out and a later accordion gave a section; the data is
\* in the cache.
C14_Witness ==
    \E c \in ScrapeSlots :
        /\ ScrapeTerminated(c) /\ scrapes[c].pc = "done" /\ scrapes[c].writes = 1
        /\ \E i, j \in 1..Len(site.page.accordions) :
              /\ i < j
              /\ WaitTimedOut(site.page.accordions[i])
              /\ j \in Contributing(site.page)
        /\ scrapes[c].key \in DOMAIN store
        /\ store[scrapes[c].key].value = scrapes[c].result

\* C15 as stated: a scrapeDevelop call that has failed has written no entry
\* and has left every existing cache entry as it was.
C15_FailedScrapeLeavesCacheUnchanged ==
    \A c \in ScrapeSlots :
        (scrapes[c].op = "scrapeDevelop" /\ scrapes[c].pc = "failed")
            => scrapes[c].writes = 0 /\ ~scrapes[c].evicted

\* C15 amended: the only changes a scrapeDevelop call makes to the cache are
\* the removal of an expired entry under its own key by its initial cacheGet
\* and one cacheSet under its own key, made when the try block has ended
\* without an error and of the complete data; a step in which an operation
\* fails leaves the cache unchanged, and a failed call has written nothing.
C15_FailedScrapeWritesNothing ==
    [][ /\ \A c \in ScrapeSlots :
             /\ (scrapes[c].pc = "idle" /\ scrapes'[c].op = "scrapeDevelop")
                   => \/ store' = store /\ ~scrapes'[c].evicted
                      \/ /\ CacheExpired(store, scrapes'[c].key, now)
                         /\ store' = StoreDelete(store, scrapes'[c].key)
                         /\ scrapes'[c].evicted
             /\ (scrapes[c].pc # "idle" /\ scrapes'[c].failedAt # ""
                   /\ scrapes[c].failedAt = "")
                   => store' = store /\ scrapes'[c].writes = 0
             /\ scrapes'[c].pc = "failed" => scrapes'[c].writes = 0
             /\ scrapes'[c].writes # scrapes[c].writes /\ scrapes'[c].writes > 0
                   => /\ scrapes[c].pc = "page" /\ scrapes'[c].pc = "finally"
                      /\ scrapes'[c].failedAt = ""
                      /\ DOMAIN store' = DOMAIN store \cup {scrapes[c].key}
                      /\ CompleteData(site.page, store'[scrapes[c].key].value)
                      /\ \A k \in DOMAIN store \ {scrapes[c].key} :
                            store'[k] = store[k]
        /\ store' # store
              => \E c \in ScrapeSlots :
                    \/ scrapes[c].pc = "idle" /\ scrapes'[c].evicted
                    \/ scrapes[c].pc = "page" /\ scrapes'[c].writes = 1
      ]_vars

\* C15 witness: a call whose initial cacheGet removed the expired entry has
\* failed inside the try block, and the develop key is not in the cache.
C15_Witness ==
    \E c \in ScrapeSlots :
        /\ scrapes[c].op = "scrapeDevelop" /\ scrapes[c].pc = "failed"
        /\ scrapes[c].evicted
        /\ scrapes[c].failedAt \in {"goto", "wait", "extract", "accordion"}
        /\ scrapes[c].key \notin DOMAIN store

----------------------------------------------------------------------------
(* Claims about racing calls (SpecRace) *)

\* The github calls that have missed the cache and have not yet completed.
Fetching == {c \in Calls : calls[c].pc \in {"tree", "meta", "raw"}}
\* The scrapeDevelop calls that have missed the cache and have not yet
\* reached the end of their try block.
Scraping ==
    {c \in ScrapeSlots : scrapes[c].pc \in {"launch", "context", "setup", "page"}}

----------------------------------------------------------------------------
(* Claims about the registry as a value (SpecRegistry) *)

\* The lookup map of the registry agrees with its collection: slugs are
\* unique among the components, bySlug maps the slug of every component to
\* that component, and bySlug has one key per component.
SlugsUnique(registry) ==
    LET comps == registry.components
    IN /\ \A i, j \in 1..Len(comps) : comps[i].slug = comps[j].slug => i = j
       /\ \A i \in 1..Len(comps) :
             /\ comps[i].slug \in DOMAIN registry.bySlug
             /\ registry.bySlug[comps[i].slug] = comps[i]
       /\ Cardinality(DOMAIN registry.bySlug) = Len(comps)

\* C18: in every registry returned by getRegistry, slugs are unique and the
\* lookup map agrees with the collection.
C18_SlugsUniqueInReturnedRegistry ==
    \A c \in Calls :
        (calls[c].op = "getRegistry" /\ calls[c].pc = "done")
            => SlugsUnique(calls[c].result)

----------------------------------------------------------------------------
(* Claims about the tool handlers (SpecDevelop, SpecFormat, SpecList) *)

\* C16: get_component_develop reports a failure by its kind: a browser
\* launch failure with the install-the-browser reply, a navigation or
\* table-wait timeout with the timed-out reply, and every other failure
\* (a registry or document fetch error among them) with the generic reply.
C16_FailureReportedByKind ==
    (dv.done /\ ~dv.failure.ok) =>
        dv.reply = CASE dv.failure.kind = "launch" -> "install-browser"
                     [] dv.failure.kind = "timeout" -> "timed-out"
                     [] OTHER -> "generic-error"

\* The column delimiters of a line: its "|" that no "\" precedes.
Delimiters(line) ==
    Cardinality({i \in 1..Len(line) :
                    line[i] = "|" /\ (i = 1 \/ line[i - 1] # "\\")})

\* C19: every data row that formatDevelopData renders has as many unescaped
\* column delimiters as the header row, whatever the cells hold.
C19_RowsKeepColumnCount ==
    fmt.done =>
        \A i \in 1..Len(fmt.lines) :
            fmt.lines[i].kind = "row"
                => Delimiters(fmt.lines[i].text) = Delimiters(TableHeader)

\* The positions of the item lines of the listing and the components there.
ItemLines == {i \in 1..Len(ls.lines) : ls.lines[i].kind = "item"}
HeadingLines == {i \in 1..Len(ls.lines) : ls.lines[i].kind = "heading"}

TimesListed(c) == Cardinality({i \in ItemLines : ls.lines[i].component = c})

RegistryComponents == {ls.components[i] : i \in 1..Len(ls.components)}

\* Exactly the components of the set are listed, each of them once.
ListsExactly(expected) ==
    /\ \A c \in expected : TimesListed(c) = 1
    /\ \A i \in ItemLines : ls.lines[i].component \in expected

\* The heading an item line stands under.
HeadingOf(i) ==
    ls.lines[CHOOSE h \in HeadingLines :
                /\ h < i
                /\ \A k \in HeadingLines : k < i => k <= h].category

\* Items stand under the heading of their category, categories ascend from
\* heading to heading, and slugs ascend between the items of a group.
GroupedAndSorted ==
    /\ \A i \in ItemLines :
          /\ \E h \in HeadingLines : h < i
          /\ HeadingOf(i) = ls.lines[i].component.category
    /\ \A h, k \in HeadingLines :
          h < k => CollationRank(ls.lines[h].category)
                      < CollationRank(ls.lines[k].category)
    /\ \A i, j \in ItemLines :
          (i < j /\ HeadingOf(i) = HeadingOf(j))
             => CollationRank(ls.lines[i].component.slug)
                   < CollationRank(ls.lines[j].component.slug)

\* C20 as stated: without a filter every registry component is listed once,
\* grouped and sorted; with a filter supplied exactly the components of that
\* category are listed.
C20_SuppliedFilterListsItsCategory ==
    ls.done =>
        IF ls.hasCategory
        THEN ListsExactly({c \in RegistryComponents : c.category = ls.category})
        ELSE ListsExactly(RegistryComponents) /\ GroupedAndSorted

\* C20: without a filter, or with the empty string as filter, every registry
\* component is listed exactly once; with a non-empty filter exactly the
\* components of that category are listed; in each case the listing is
\* grouped by category, categories ascending, slugs ascending in each group.
C20_NonEmptyFilterListsItsCategory ==
    ls.done =>
        /\ GroupedAndSorted
        /\ IF ls.hasCategory /\ ls.category # ""
           THEN ListsExactly({c \in RegistryComponents :
                                 c.category = ls.category})
           ELSE ListsExactly(RegistryComponents)

\* A filtered listing of a registry holding both categories, the slug they
\* share included, given out of order.
C20_Witness ==
    /\ ls.done
    /\ ls.hasCategory /\ ls.category = "actions"
    /\ RegistryComponents = ListPool
    /\ ls.components[1].slug = "link"
    /\ Cardinality(ItemLines) = 2

----------------------------------------------------------------------------
(* Claims about the shared browser and the contexts (SpecBrowser)          *)

\* C21: a scrapeDevelop call that misses the cache takes the handle without
\* launching when the handle refers to a connected browser, and starts a
\* launch when the handle is empty or refers to a disconnected browser; a
\* launch that succeeds starts a new process and puts it in the handle; the
\* browser a call works on is either one that was connected when the call
\* tested the handle or the one the call launched, and the context of the
\* call is created on that browser.
C21_HandleReusedOnlyWhenAlive ==
    [][\A c \in ScrapeSlots :
          LET before == scrapes[c]
              after == scrapes'[c]
          IN /\ (before.pc = "idle" /\ after.op = "scrapeDevelop"
                    /\ after.pc # "done")
                   => IF browser # 0 /\ procs[browser] = "running"
                      THEN /\ after.pc = "context" /\ after.b = browser
                           /\ procs' = procs /\ browser' = browser
                      ELSE /\ after.pc = "launch" /\ after.b = 0
                           /\ procs' = procs /\ browser' = browser
             /\ (before.pc = "launch" /\ after.pc = "context")
                   => /\ Len(procs') = Len(procs) + 1
                      /\ procs'[Len(procs')] = "running"
                      /\ after.b = Len(procs')
                      /\ browser' = Len(procs')
             /\ (after.b # before.b /\ after.b # 0)
                   => \/ /\ before.pc = "idle"
                         /\ after.b \in DOMAIN procs
                         /\ procs[after.b] = "running"
                      \/ /\ before.pc = "launch"
                         /\ after.b \notin DOMAIN procs
             /\ (before.ctx # "open" /\ after.ctx = "open")
                   => after.b = before.b /\ before.b # 0
             /\ (before.pc \in {"context", "setup", "page", "finally"}
                    /\ after.pc # "idle")
                   => after.b = before.b
      ]_vars

\* A call found the handle referring to a disconnected browser, launched a
\* new one and has its context open on it, the handle referring to it.
C21_Witness ==
    \E c \in ScrapeSlots :
        /\ scrapes[c].saw = "dead"
        /\ scrapes[c].launched
        /\ scrapes[c].ctx = "open"
        /\ browser = scrapes[c].b
        /\ IsConnected(scrapes[c].b)

\* A call found the handle referring to a connected browser and has its
\* context open on it without a launch of its own.
C21_WitnessReuse ==
    \E c \in ScrapeSlots :
        /\ scrapes[c].saw = "alive"
        /\ ~scrapes[c].launched
        /\ scrapes[c].ctx = "open"

\* The scrapeDevelop call in slot c has terminated after missing the cache.
TerminatedMiss(c) == ScrapeTerminated(c) /\ scrapes[c].saw # ""

\* No two calls in flight hold the same context.
NoContextShared ==
    \A c, d \in ScrapeSlots :
        (c # d /\ scrapes[c].cx # 0) => scrapes[c].cx # scrapes[d].cx

\* What a step does to the contexts, seen from the call in slot c: the call
\* gets a context only from its own newContext, a new one of its browser; a
\* step of a scrapeDevelop call touches no context but the one of that call;
\* a cache hit creates none; the finally block closes the one of the call.
OwnContextOnly(c) ==
    LET before == scrapes[c]
        after == scrapes'[c]
    IN /\ after.cx # before.cx
             => \/ after.pc = "idle"
                \/ /\ before.pc = "context" /\ before.cx = 0
                   /\ after.cx \notin DOMAIN contexts
                   /\ after.cx \in DOMAIN contexts'
                   /\ contexts'[after.cx] = Context(before.b)
       /\ (after # before /\ "scrapeDevelop" \in {before.op, after.op})
             => /\ \A id \in DOMAIN contexts \ {before.cx} :
                      id \in DOMAIN contexts' /\ contexts'[id] = contexts[id]
                /\ \A id \in DOMAIN contexts' \ DOMAIN contexts : id = after.cx
       /\ (before.pc = "idle" /\ after.pc = "done" /\ after.op = "scrapeDevelop")
             => after.cx = 0 /\ contexts' = contexts
       /\ (before.pc = "finally" /\ after.pc # "finally")
             => /\ after.cx = before.cx
                /\ before.cx \in DOMAIN contexts'
                /\ ~contexts'[before.cx].open

\* The context and the page of a terminated call that has a context.
HasOneContextOnePage(c) ==
    /\ scrapes[c].cx \in DOMAIN contexts
    /\ contexts[scrapes[c].cx].pages = 1

\* C22 as stated: every call that misses the cache creates exactly one
\* context and one page, and no call shares, closes or alters the context
\* of another.
C22_ExactlyOneContextPerMiss ==
    [][/\ NoContextShared'
       /\ \A c \in ScrapeSlots :
             /\ OwnContextOnly(c)
             /\ TerminatedMiss(c)' => HasOneContextOnePage(c)'
      ]_vars

\* C22: every call that misses the cache creates at most one context and
\* at most one page: none when the launch or newContext fails, a context
\* without a page when route or newPage fails, one context with one page
\* otherwise; no two calls in flight hold the same context, a step of a
\* call touches no context but its own, and a cache hit creates none.
C22_ContextsPerCallNeverShared ==
    [][/\ NoContextShared'
       /\ \A c \in ScrapeSlots :
             /\ OwnContextOnly(c)
             /\ TerminatedMiss(c)'
                   => CASE scrapes'[c].failedAt \in {"launch", "newContext"}
                             -> scrapes'[c].cx = 0
                        [] scrapes'[c].failedAt \in {"route", "newPage"}
                             -> /\ scrapes'[c].cx \in DOMAIN contexts'
                                /\ contexts'[scrapes'[c].cx].pages = 0
                        [] OTHER -> HasOneContextOnePage(c)'
      ]_vars

\* One call has failed at the navigation and closed its context while the
\* other call works on its own open context in the same browser.
C22_Witness ==
    \E c, d \in ScrapeSlots :
        /\ scrapes[c].pc = "failed" /\ scrapes[c].failedAt = "goto"
        /\ scrapes[c].cx \in DOMAIN contexts
        /\ ~contexts[scrapes[c].cx].open
        /\ scrapes[d].pc = "page"
        /\ scrapes[d].cx \in DOMAIN contexts
        /\ contexts[scrapes[d].cx].open
        /\ scrapes[d].b = scrapes[c].b

----------------------------------------------------------------------------
(* Claims about the extracted data (SpecExtract)                           *)

\* data is what the claim describes for the page: only sections with rows,
\* the main table first under "Properties", then the accordions that gave
\* rows, in page order, each under its heading text or under "Other".
SectionsAsClaimed(page, data) ==
    LET mainN == IF Len(page.main) > 0 THEN 1 ELSE 0
        rank(i) == Cardinality({j \in Contributing(page) : j <= i})
    IN /\ CompleteData(page, data)
       /\ \A k \in 1..Len(data.sections) :
             Len(data.sections[k].properties) > 0
       /\ mainN = 1 => data.sections[1].heading = "Properties"
       /\ \A i \in Contributing(page) :
             data.sections[mainN + rank(i)].heading =
                IF page.accordions[i].heading = "" THEN "Other"
                ELSE page.accordions[i].heading

\* No table of the page gives a row.
NoRows(page) == Len(page.main) = 0 /\ Contributing(page) = {}

\* The try block of the call in slot c ends in this step with data that is
\* as claimed for the page, cached under the develop key and kept as the
\* result.
ExtractsAsClaimed(c) ==
    /\ scrapes'[c].pc = "finally" /\ scrapes'[c].failedAt = ""
    /\ SectionsAsClaimed(site.page, scrapes'[c].result)
    /\ NoRows(site.page) => scrapes'[c].result.sections = <<>>
    /\ scrapes[c].key \in DOMAIN store'
    /\ store'[scrapes[c].key].value = scrapes'[c].result

\* C23 as stated: on a site whose operations do not fail, the try block of a
\* call ends for every page, a page without any row included, with the data
\* as claimed, cached and then returned.
C23_SectionsForEveryPage ==
    [][ \A c \in ScrapeSlots :
          /\ scrapes[c].pc = "page" /\ scrapes'[c].pc # "page"
                => ExtractsAsClaimed(c)
          /\ (scrapes[c].pc = "finally" /\ scrapes'[c].pc # "finally")
                => scrapes'[c].pc = "done"
                      /\ scrapes'[c].result = scrapes[c].result
      ]_vars

\* C23: on a site whose operations do not fail, the try block of a call on
\* a page that shows a table container ends with the data as claimed, zero
\* sections when no table gives a row, cached and then returned; on a page
\* that shows no table container the wait for it times out, the call fails
\* and caches nothing.
C23_SectionsWhenTableShown ==
    [][ \A c \in ScrapeSlots :
          /\ scrapes[c].pc = "page" /\ scrapes'[c].pc # "page"
                => IF TableShown(site.page)
                   THEN ExtractsAsClaimed(c)
                   ELSE /\ scrapes'[c].failedAt = "wait"
                        /\ scrapes'[c].result = ScrapeError("wait")
                        /\ store' = store
          /\ (scrapes[c].pc = "finally" /\ scrapes'[c].pc # "finally")
                => IF scrapes[c].failedAt = ""
                   THEN scrapes'[c].pc = "done"
                           /\ scrapes'[c].result = scrapes[c].result
                   ELSE scrapes'[c].pc = "failed"
      ]_vars

\* A call has returned the data of the page with the main table, an
\* accordion that gave no rows and an accordion without heading text, and
\* the data is in the cache.
C23_Witness ==
    \E c \in ScrapeSlots :
        /\ ScrapeTerminated(c) /\ scrapes[c].pc = "done" /\ scrapes[c].writes = 1
        /\ site.page = PageFull
        /\ Len(scrapes[c].result.sections) = 2
        /\ scrapes[c].result.sections[2].heading = "Other"
        /\ scrapes[c].key \in DOMAIN store
        /\ store[scrapes[c].key].value = scrapes[c].result

\* A call has returned and cached zero sections for a page whose tables
\* give no row.
C23_WitnessNoRows ==
    \E c \in ScrapeSlots :
        /\ ScrapeTerminated(c) /\ scrapes[c].pc = "done" /\ scrapes[c].writes = 1
        /\ NoRows(site.page)
        /\ scrapes[c].result.sections = <<>>
        /\ scrapes[c].key \in DOMAIN store

----------------------------------------------------------------------------
(* Claims about the browser processes (SpecBrowser)                        *)

\* The browser processes that were launched and are still running.
RunningBrowsers == {id \in DOMAIN procs : procs[id] = "running"}

\* C24: every browser process that was launched and is still running is the
\* one the shared handle refers to; in particular no launched browser runs
\* once a closeBrowser call has completed and no other call is in progress.
C24_NoBrowserOrphaned ==
    /\ \A id \in RunningBrowsers : browser = id
    /\ (\E c \in ScrapeSlots :
            /\ scrapes[c].op = "closeBrowser" /\ scrapes[c].pc = "done"
            /\ \A d \in ScrapeSlots \ {c} : scrapes[d].pc = "idle")
          => RunningBrowsers = {}

====
